---------------------------- MODULE Spec2Model ----------------------------
(***************************************************************************)
(* A model of the recipe-driven list crawler:                              *)
(*   - extractors/list_page.py   canonicalize (on strings, modelled as     *)
(*                               sequences of one-character strings)       *)
(*   - persistence/list_crawl_state.py   JSONStateStore                    *)
(*   - list_crawler.py           ListCrawler.__init__, crawl and the       *)
(*                               helpers crawl calls                       *)
(* The four files of the output directory are part of the state, so that   *)
(* a crash and a restart of the process can be followed.                   *)
(***************************************************************************)
EXTENDS Integers, Sequences, FiniteSets, TLC

(***************************************************************************)
(* Strings.  A Python str is a sequence of one-character strings, so that  *)
(* urlparse, rstrip and the query handling work on characters.             *)
(***************************************************************************)

\* str.find(c, start) with 1-based positions; 0 when c does not occur.
RECURSIVE Find(_, _, _)
Find(s, c, start) ==
    IF start > Len(s) THEN 0
    ELSE IF s[start] = c THEN start
    ELSE Find(s, c, start + 1)

\* str.rfind(c) with 1-based positions; 0 when c does not occur.
RECURSIVE RFind(_, _, _)
RFind(s, c, end) ==
    IF end < 1 THEN 0
    ELSE IF s[end] = c THEN end
    ELSE RFind(s, c, end - 1)

\* s[i:] for a 1-based first position i.
From(s, i) == SubSeq(s, i, Len(s))

\* s[:i] exclusive of the 1-based position i.
Upto(s, i) == SubSeq(s, 1, i - 1)

\* str.rstrip(c) that removes one character at most
RStrip_once(s, c) ==
    IF s # <<>> /\ s[Len(s)] = c THEN SubSeq(s, 1, Len(s) - 1) ELSE s

\* str.rstrip(c)
RECURSIVE RStrip(_, _)
RStrip(s, c) ==
    IF s # <<>> /\ s[Len(s)] = c THEN RStrip(SubSeq(s, 1, Len(s) - 1), c) ELSE s

\* str.split(sep) for a one-character separator: always at least one field.
RECURSIVE Split(_, _)
Split(s, sep) ==
    LET i == Find(s, sep, 1)
    IN  IF i = 0 THEN <<s>> ELSE <<Upto(s, i)>> \o Split(From(s, i + 1), sep)

\* sep.join(fields)
RECURSIVE Join(_, _)
Join(fields, sep) ==
    IF fields = <<>> THEN <<>>
    ELSE IF Len(fields) = 1 THEN fields[1]
    ELSE fields[1] \o <<sep>> \o Join(Tail(fields), sep)

\* [f(x) for x in seq if keep]
RECURSIVE SelectSeqIdx(_, _)
SelectSeqIdx(seq, keep) ==
    IF seq = <<>> THEN <<>>
    ELSE (IF keep[1] THEN <<seq[1]>> ELSE <<>>)
         \o SelectSeqIdx(Tail(seq), Tail(keep))

Letters == {"a", "b", "c", "d", "e", "f", "g", "h", "i", "j", "k", "l", "m",
            "n", "o", "p", "q", "r", "s", "t", "u", "v", "w", "x", "y", "z"}

Digits == {"0", "1", "2", "3", "4", "5", "6", "7", "8", "9"}

\* urllib.parse.scheme_chars (the lower-case part; the inputs hold no capitals)
scheme_chars == Letters \cup Digits \cup {"+", "-", "."}

\* urllib.parse.uses_params, the members the bounded inputs can name
uses_params == { <<>>, <<"f","t","p">>, <<"h","t","t","p">>,
                 <<"h","t","t","p","s">> }

\* urllib.parse.uses_netloc, the members the bounded inputs can name
uses_netloc == { <<>>, <<"f","t","p">>, <<"h","t","t","p">>,
                 <<"h","t","t","p","s">> }

\* urllib.parse._splitnetloc(url, 2): the netloc ends at the first of / ? #
\* at or after (1-based) position 3.
MinPos(a, b) == IF a = 0 THEN b ELSE IF b = 0 THEN a ELSE IF a < b THEN a ELSE b

NetlocEnd(url) ==
    LET d == MinPos(Find(url, "/", 3), MinPos(Find(url, "?", 3), Find(url, "#", 3)))
    IN  IF d = 0 THEN Len(url) + 1 ELSE d

\* urllib.parse.urlsplit, in the order of its statements: the scheme is cut
\* at the first ':' when what precedes it is a scheme, then the netloc after
\* '//', then the fragment at the first '#', then the query at the first '?'.
SplitQuery(scheme, netloc, r3, fragment, q) ==
    [scheme |-> scheme, netloc |-> netloc,
     path |-> IF q = 0 THEN r3 ELSE Upto(r3, q),
     query |-> IF q = 0 THEN <<>> ELSE From(r3, q + 1),
     fragment |-> fragment]

SplitFragment(scheme, netloc, r2, h) ==
    IF h = 0
    THEN SplitQuery(scheme, netloc, r2, <<>>, Find(r2, "?", 1))
    ELSE SplitQuery(scheme, netloc, Upto(r2, h), From(r2, h + 1),
                    Find(Upto(r2, h), "?", 1))

SplitNetloc(scheme, r1) ==
    IF Len(r1) >= 2 /\ r1[1] = "/" /\ r1[2] = "/"
    THEN SplitFragment(scheme, SubSeq(r1, 3, NetlocEnd(r1) - 1),
                       From(r1, NetlocEnd(r1)),
                       Find(From(r1, NetlocEnd(r1)), "#", 1))
    ELSE SplitFragment(scheme, <<>>, r1, Find(r1, "#", 1))

SplitScheme(url, i) ==
    IF /\ i > 1
       /\ url[1] \in Letters
       /\ \A k \in 1..(i - 1) : url[k] \in scheme_chars
    THEN SplitNetloc(Upto(url, i), From(url, i + 1))
    ELSE SplitNetloc(<<>>, url)

urlsplit(url) == SplitScheme(url, Find(url, ":", 1))

\* urllib.parse._splitparams: <<path, params>>; str.find(';', rfind('/'))
\* starts at the last slash.
SplitAt(url, i) ==
    IF i = 0 THEN <<url, <<>> >> ELSE <<Upto(url, i), From(url, i + 1)>>

splitparams(url) ==
    IF RFind(url, "/", Len(url)) > 0
    THEN SplitAt(url, Find(url, ";", RFind(url, "/", Len(url))))
    ELSE SplitAt(url, Find(url, ";", 1))

\* urllib.parse.urlparse
WithParams(s, sp) ==
    [scheme |-> s.scheme, netloc |-> s.netloc, path |-> sp[1],
     params |-> sp[2], query |-> s.query, fragment |-> s.fragment]

ParseSplit(s) ==
    IF s.scheme \in uses_params /\ Find(s.path, ";", 1) > 0
    THEN WithParams(s, splitparams(s.path))
    ELSE WithParams(s, <<s.path, <<>> >>)

urlparse(url) == ParseSplit(urlsplit(url))

\* urllib.parse.urlunsplit
AddQueryFragment(u, query, fragment) ==
    (IF query # <<>> THEN u \o <<"?">> \o query ELSE u)
    \o (IF fragment # <<>> THEN <<"#">> \o fragment ELSE <<>>)

AddScheme(scheme, u, query, fragment) ==
    IF scheme # <<>>
    THEN AddQueryFragment(scheme \o <<":">> \o u, query, fragment)
    ELSE AddQueryFragment(u, query, fragment)

urlunsplit(scheme, netloc, path, query, fragment) ==
    IF netloc # <<>>
       \/ (scheme # <<>> /\ scheme \in uses_netloc
           /\ ~(Len(path) >= 2 /\ path[1] = "/" /\ path[2] = "/"))
    THEN AddScheme(scheme,
                   <<"/", "/">> \o netloc
                   \o (IF path # <<>> /\ path[1] # "/" THEN <<"/">> ELSE <<>>)
                   \o path,
                   query, fragment)
    ELSE AddScheme(scheme, path, query, fragment)

\* urllib.parse.urlunparse
urlunparse(scheme, netloc, path, params, query, fragment) ==
    urlunsplit(scheme, netloc,
               IF params # <<>> THEN path \o <<";">> \o params ELSE path,
               query, fragment)

\* One field of a query string as <<name, value>>: a field without '=' has
\* the value '' (keep_blank_values).
QueryPair(f, e) ==
    IF e = 0 THEN <<f, <<>> >> ELSE <<Upto(f, e), From(f, e + 1)>>

NonEmptyFields(fields) ==
    SelectSeqIdx(fields, [k \in 1..Len(fields) |-> fields[k] # <<>>])

PairsOfFields(kept) ==
    [k \in 1..Len(kept) |-> QueryPair(kept[k], Find(kept[k], "=", 1))]

\* urllib.parse.parse_qsl(query, keep_blank_values=True): the <<name, value>>
\* pairs in order; empty fields are skipped.  The bounded inputs hold neither
\* '%' nor '+', so unquoting changes no character.
parse_qsl(query) == PairsOfFields(NonEmptyFields(Split(query, "&")))

\* The keys of parse_qs's dict in insertion order (first occurrence).
RECURSIVE DictKeys(_, _)
DictKeys(pairs, seen) ==
    IF pairs = <<>> THEN <<>>
    ELSE IF pairs[1][1] \in seen THEN DictKeys(Tail(pairs), seen)
    ELSE <<pairs[1][1]>> \o DictKeys(Tail(pairs), seen \cup {pairs[1][1]})

\* The pairs of one key, in order: parse_qs's list of values for the key.
PairsOf(pairs, key) ==
    SelectSeqIdx(pairs, [k \in 1..Len(pairs) |-> pairs[k][1] = key])

\* The items of parse_qs's dict as urlencode(doseq=True) walks them: the
\* pairs grouped by key, the keys in the order of their first occurrence.
RECURSIVE GroupByKey(_, _)
GroupByKey(pairs, keys) ==
    IF keys = <<>> THEN <<>>
    ELSE PairsOf(pairs, keys[1]) \o GroupByKey(pairs, Tail(keys))

\* urllib.parse.urlencode(params, doseq=True) on the grouped pairs.
urlencode(pairs) ==
    Join([k \in 1..Len(pairs) |-> pairs[k][1] \o <<"=">> \o pairs[k][2]], "&")

\* canonicalize's tracking_params (list_page.py, lines 51-55)
tracking_params ==
    { <<"u","t","m","_","s","o","u","r","c","e">>,
      <<"u","t","m","_","m","e","d","i","u","m">>,
      <<"u","t","m","_","c","a","m","p","a","i","g","n">>,
      <<"u","t","m","_","t","e","r","m">>,
      <<"u","t","m","_","c","o","n","t","e","n","t">>,
      <<"f","b","c","l","i","d">>, <<"g","c","l","i","d">>,
      <<"m","s","c","l","k","i","d">>, <<"m","c","_","c","i","d">>,
      <<"m","c","_","e","i","d">>, <<"_","g","a">>, <<"_","g","l">>,
      <<"r","e","f">>, <<"s","o","u","r","c","e">> }

\* canonicalize, lines 57-64: the query without the tracking parameters
NotTracking(keys) ==
    SelectSeqIdx(keys, [k \in 1..Len(keys) |-> keys[k] \notin tracking_params])

RebuildQuery(params, filtered_keys) ==
    IF filtered_keys # <<>>
    THEN urlencode(GroupByKey(params, filtered_keys))
    ELSE <<>>

StripTracking(params) == RebuildQuery(params, NotTracking(DictKeys(params, {})))

\* canonicalize, lines 42-76, on the parsed URL
CanonicalOf(parsed, strip_tracking_params) ==
    urlunparse(parsed.scheme, parsed.netloc,
               IF parsed.path # <<"/">> THEN RStrip(parsed.path, "/")
               ELSE parsed.path,
               parsed.params,
               IF strip_tracking_params /\ parsed.query # <<>>
               THEN StripTracking(parse_qsl(parsed.query))
               ELSE parsed.query,
               <<>>)

\* canonicalize(url, strip_tracking_params)
canonicalize2(url, strip_tracking_params) ==
    CanonicalOf(urlparse(url), strip_tracking_params)

\* canonicalize(url) with the default strip_tracking_params=True
canonicalize(url) == canonicalize2(url, TRUE)


(***************************************************************************)
(* Optional values (Python's None): <<>> is None, <<v>> is the value v.    *)
(***************************************************************************)
None == <<>>
Some(v) == <<v>>

\* Python truthiness of an Optional[int]: None and 0 are false.
Truthy(opt) == opt # None /\ opt[1] # 0

Range(seq) == { seq[k] : k \in DOMAIN seq }

(***************************************************************************)
(* The bounded inputs: URLs, fetched documents, recipes.                   *)
(***************************************************************************)
PageA == <<"/", "a">>
PageB == <<"/", "b">>
PageC == <<"/", "c">>
PageX == <<"/", "x">>
\* PageA as a recipe or a link may spell it: with a trailing slash
PageASlash == <<"/", "a", "/">>

ItemI == <<"/", "i">>
ItemJ == <<"/", "j">>
\* ItemI with a fragment
ItemIFrag == <<"/", "i", "#", "f">>

\* What fetch returns and the extractors find in it: `empty` says that the
\* text is the empty string, item_links is the result of extract_item_links
\* on it and pagination_links the result of extract_pagination_links under
\* the recipe's pagination config.
Doc(items, pag) == [empty |-> FALSE, item_links |-> items, pagination_links |-> pag]

EmptyText == [empty |-> TRUE, item_links |-> <<>>, pagination_links |-> <<>>]

Link(u, t) == [url |-> u, text |-> t]

Docs ==
    { Doc(<< Link(ItemI, "one"), Link(ItemJ, "two") >>, << PageB, PageX >>),
      Doc(<< Link(ItemJ, "two"), Link(ItemIFrag, "uno") >>, << PageC >>),
      Doc(<< >>, << PageASlash >>),
      EmptyText }

\* The results of _fetch_page: None, or the text of the response.
FetchResults == {None} \cup { Some(d) : d \in Docs }

MkRecipe(s, p, mp, mi) ==
    [start_urls |-> s, pagination |-> p,
     limits |-> [max_list_pages |-> mp, max_items |-> mi]]

\* The recipes: pagination is TRUE when the recipe has a pagination config.
RecipeSet ==
    { MkRecipe(<<PageA>>, TRUE, None, None),
      MkRecipe(<<PageA, PageX>>, TRUE, Some(2), None),
      MkRecipe(<<PageASlash>>, TRUE, None, Some(1)),
      MkRecipe(<<PageASlash, PageX>>, TRUE, Some(2), None),
      MkRecipe(<<PageA, PageA>>, FALSE, Some(0), Some(0)) }

\* The number of crawler processes started in one behaviour
MaxRuns == 2

\* The number of JSONStateStore calls in one behaviour of SpecStore, and of
\* calls and process switches in one behaviour of SpecTwo
MaxOps == 5

\* crawl's "Periodic state save": list_pages_visited % 5 == 0
SaveEvery == 5

(***************************************************************************)
(* State.                                                                  *)
(***************************************************************************)
VARIABLES
    \* the output directory
    seen_list_pages_file,   \* seen_list_pages.json: [exists, data]
    seen_item_links_file,   \* seen_item_links.json: [exists, data]
    list_pages_log_file,    \* list_pages.jsonl: the entries in order
    items_log_file,         \* items.jsonl: the entries in order
    \* JSONStateStore
    seen_list_pages,
    seen_item_links,
    \* ListCrawler
    recipe,
    dry_run,
    force,
    queue,
    queued_urls,
    stats,
    \* crawl and _process_list_page: the position and the locals
    pc,                     \* idle | loop | items | after | break | done | crashed | store
    url,                    \* the URL dequeued last
    html,                   \* the result of _fetch_page for it
    item_idx,               \* the position in item_links of the for loop
    success,                \* the result of _process_list_page
    \* history, for the properties only
    run,                    \* the number of crawlers constructed so far
    fetched,                \* the URLs passed to _fetch_page in this run, in order
    null_only,              \* every fetch of this run returned None
    disk0,                  \* the output directory when this run's crawler was constructed
    seen0,                  \* the seen sets right after construction
    gap,                    \* the pages marked seen since the last save() of this run
    crash,                  \* what the last crash left behind
    hist,                   \* [force, crash, dry]: some run so far was forced / crashed / dry
    added,                  \* the URLs add_item was called with since construction, in order
    cleared,                \* clear() was called since construction
    ops,                    \* the number of store calls made (SpecStore)
    \* a second process on the same output directory (SpecTwo)
    peer,                   \* the seen sets of the JSONStateStore of the process not running
    saved,                  \* the URLs save() has written to seen_list_pages.json so far
    \* a call of one function of recipe_loader.py or extractors/list_page.py
    args,                   \* the arguments of the call
    result,                 \* NoCall, or what the call returned or that it raised
    \* WebCrawler (crawler.py), whose queue, url and fetched are the variables
    \* of these names above
    visited,
    discovered_links,       \* url -> [found_on, depth], on the URLs it has a key for
    links_file,             \* discovered_links.json: None, or the dict written
    pages                   \* the URLs save_page has written a file for

files == <<seen_list_pages_file, seen_item_links_file>>
logs == <<list_pages_log_file, items_log_file>>
store == <<seen_list_pages, seen_item_links>>
crawler == <<dry_run, force, queue, queued_urls, stats>>
locals == <<pc, url, html, item_idx, success>>
history == <<run, fetched, null_only, disk0, seen0, gap, crash, hist, added,
            cleared, ops, peer, saved, args, result>>
web == <<visited, discovered_links, links_file, pages>>
vars == <<files, logs, store, recipe, crawler, locals, history, web>>

\* No WebCrawler has run
WebIdle ==
    /\ visited = {}
    /\ discovered_links = << >>
    /\ links_file = << >>
    /\ pages = {}

Absent == [exists |-> FALSE, data |-> {}]
FileOf(set) == [exists |-> TRUE, data |-> set]

Disk == [seen_list_pages_file |-> seen_list_pages_file,
         seen_item_links_file |-> seen_item_links_file,
         list_pages_log_file |-> list_pages_log_file,
         items_log_file |-> items_log_file]

(***************************************************************************)
(* JSONStateStore (persistence/list_crawl_state.py).  Timestamps are left  *)
(* out of the log entries.                                                 *)
(***************************************************************************)

\* _load_state without the read of seen_item_links.json
_load_state_pages_only ==
    /\ seen_list_pages' = (IF seen_list_pages_file.exists
                           THEN seen_list_pages_file.data ELSE {})
    /\ seen_item_links' = {}

\* _load_state: a missing file leaves the set empty.
_load_state ==
    /\ seen_list_pages' = (IF seen_list_pages_file.exists
                           THEN seen_list_pages_file.data ELSE {})
    /\ seen_item_links' = (IF seen_item_links_file.exists
                           THEN seen_item_links_file.data ELSE {})

has_seen_list_page(u) == u \in seen_list_pages

mark_list_page_seen(u) == seen_list_pages' = seen_list_pages \cup {u}

has_seen_item(u) == u \in seen_item_links

\* add_item without the early return on a seen URL
add_item_always(u, text, source_page) ==
    /\ seen_item_links' = seen_item_links \cup {u}
    /\ items_log_file' = Append(items_log_file,
           [url |-> u, text |-> text, source_page |-> source_page])

\* add_item without the write to items.jsonl
add_item_without_log(u, text, source_page) ==
    /\ seen_item_links' = seen_item_links \cup {u}
    /\ UNCHANGED items_log_file

add_item(u, text, source_page) ==
    IF u \in seen_item_links
    THEN UNCHANGED <<seen_item_links, items_log_file>>
    ELSE /\ seen_item_links' = seen_item_links \cup {u}
         /\ items_log_file' = Append(items_log_file,
                [url |-> u, text |-> text, source_page |-> source_page])

\* append_list_page_log that leaves the log alone when it holds an entry for u
append_list_page_log_once(u, status, items_found, pagination_found) ==
    IF \E k \in DOMAIN list_pages_log_file : list_pages_log_file[k].url = u
    THEN UNCHANGED list_pages_log_file
    ELSE list_pages_log_file' = Append(list_pages_log_file,
             [url |-> u, status |-> status, items_found |-> items_found,
              pagination_found |-> pagination_found])

\* append_list_page_log with the file opened for writing, not for appending
append_list_page_log_truncating(u, status, items_found, pagination_found) ==
    list_pages_log_file' =
        << [url |-> u, status |-> status, items_found |-> items_found,
            pagination_found |-> pagination_found] >>

\* append_list_page_log that writes nothing
append_list_page_log_nothing(u, status, items_found, pagination_found) ==
    UNCHANGED list_pages_log_file

append_list_page_log(u, status, items_found, pagination_found) ==
    list_pages_log_file' = Append(list_pages_log_file,
        [url |-> u, status |-> status, items_found |-> items_found,
         pagination_found |-> pagination_found])

get_seen_list_pages_count == Cardinality(seen_list_pages)

get_seen_items_count == Cardinality(seen_item_links)

\* save that keeps what the files hold and adds the sets to it
save_merging ==
    /\ seen_list_pages_file' =
          FileOf(seen_list_pages \cup
                 (IF seen_list_pages_file.exists THEN seen_list_pages_file.data ELSE {}))
    /\ seen_item_links_file' =
          FileOf(seen_item_links \cup
                 (IF seen_item_links_file.exists THEN seen_item_links_file.data ELSE {}))

\* save that writes no file
save_nothing == UNCHANGED <<seen_list_pages_file, seen_item_links_file>>

save ==
    /\ seen_list_pages_file' = FileOf(seen_list_pages)
    /\ seen_item_links_file' = FileOf(seen_item_links)

\* clear that empties the sets and leaves the snapshot files
clear_memory_only ==
    /\ seen_list_pages' = {}
    /\ seen_item_links' = {}
    /\ UNCHANGED <<seen_list_pages_file, seen_item_links_file>>

clear ==
    /\ seen_list_pages' = {}
    /\ seen_item_links' = {}
    /\ seen_list_pages_file' = Absent
    /\ seen_item_links_file' = Absent

(***************************************************************************)
(* ListCrawler (list_crawler.py)                                           *)
(***************************************************************************)
\* No function has been called
NoArgs == [fn |-> "none"]
NoCall == [called |-> FALSE]

\* The seen sets of a JSONStateStore constructed on an empty directory
NoPeer == [seen_list_pages |-> {}, seen_item_links |-> {}]

ZeroStats == [list_pages_visited |-> 0, list_pages_skipped |-> 0,
              items_discovered |-> 0, pagination_links_found |-> 0]

\* The queue as __init__ seeds it
queue0 == [k \in 1..Len(recipe.start_urls) |-> canonicalize(recipe.start_urls[k])]

NoCrash == [happened |-> FALSE, lost |-> {}, pending |-> {}]

\* __init__: the store is constructed (and cleared under force), the queue is
\* seeded with the canonical start URLs, queued_urls with the start URLs as
\* the recipe spells them.
Construct(d, f) ==
    /\ pc \in {"idle", "done", "crashed"}
    /\ run < MaxRuns
    /\ dry_run' = d
    /\ force' = f
    /\ IF f THEN clear ELSE _load_state /\ UNCHANGED files
    /\ queue' = queue0
    /\ queued_urls' = Range(recipe.start_urls)
    /\ stats' = ZeroStats
    /\ pc' = "loop"
    /\ url' = <<>>
    /\ html' = None
    /\ item_idx' = 0
    /\ success' = TRUE
    /\ run' = run + 1
    /\ fetched' = <<>>
    /\ null_only' = TRUE
    /\ disk0' = Disk
    /\ seen0' = [pages |-> seen_list_pages', items |-> seen_item_links',
                 log |-> Len(items_log_file)]
    /\ gap' = {}
    /\ hist' = [force |-> hist.force \/ f, crash |-> hist.crash \/ pc = "crashed",
                dry |-> hist.dry \/ d]
    /\ added' = <<>>
    /\ cleared' = f
    /\ crash' = IF pc = "crashed" THEN crash ELSE NoCrash
    /\ UNCHANGED <<logs, recipe, ops, peer, saved,
                   args, result, web>>

\* _fetch_page's result is false in `if not html`: None or the empty string.
Falsy(h) == h = None \/ h[1].empty

\* _should_stop with > for >=
_should_stop_strict(s) ==
    \/ /\ Truthy(recipe.limits.max_list_pages)
       /\ s.list_pages_visited > recipe.limits.max_list_pages[1]
    \/ /\ Truthy(recipe.limits.max_items)
       /\ s.items_discovered > recipe.limits.max_items[1]

\* _should_stop with `is not None` for the truth test of the limits
_should_stop_is_not_None(s) ==
    \/ /\ recipe.limits.max_list_pages # None
       /\ s.list_pages_visited >= recipe.limits.max_list_pages[1]
    \/ /\ recipe.limits.max_items # None
       /\ s.items_discovered >= recipe.limits.max_items[1]

\* _should_stop, on the statistics s
_should_stop(s) ==
    \/ /\ Truthy(recipe.limits.max_list_pages)
       /\ s.list_pages_visited >= recipe.limits.max_list_pages[1]
    \/ /\ Truthy(recipe.limits.max_items)
       /\ s.items_discovered >= recipe.limits.max_items[1]

\* the skip of a seen page, counted as a visit as well
SkipSeen_counts_visit ==
    /\ stats' = [stats EXCEPT !.list_pages_skipped = @ + 1,
                              !.list_pages_visited = @ + 1]
    /\ success' = TRUE
    /\ html' = None
    /\ item_idx' = 0
    /\ pc' = "after"
    /\ UNCHANGED <<list_pages_log_file, seen_list_pages, fetched, null_only>>

\* _process_list_page, lines 142-145: a seen page is skipped without a fetch.
SkipSeen ==
    /\ stats' = [stats EXCEPT !.list_pages_skipped = @ + 1]
    /\ success' = TRUE
    /\ html' = None
    /\ item_idx' = 0
    /\ pc' = "after"
    /\ UNCHANGED <<list_pages_log_file, seen_list_pages, fetched, null_only>>

\* the failure branch with the page marked seen
FetchFailure_marks_seen(u) ==
    /\ append_list_page_log(u, "error", 0, 0)
    /\ mark_list_page_seen(u)
    /\ success' = FALSE
    /\ item_idx' = 0
    /\ pc' = "after"
    /\ UNCHANGED stats

\* _process_list_page, lines 149-152: the fetch of u gave nothing.
FetchFailure(u) ==
    /\ append_list_page_log(u, "error", 0, 0)
    /\ success' = FALSE
    /\ item_idx' = 0
    /\ pc' = "after"
    /\ UNCHANGED <<seen_list_pages, stats>>

\* crawl's loop, lines 259-262, and _process_list_page up to the fetch:
\* popleft, the skip of a seen page, the fetch and its failure.
Dequeue ==
    /\ pc = "loop"
    /\ queue # <<>>
    /\ queue' = Tail(queue)
    /\ url' = Head(queue)
    /\ IF ~force /\ has_seen_list_page(Head(queue))
       THEN SkipSeen
       ELSE \E h \in FetchResults :
            /\ html' = h
            /\ fetched' = Append(fetched, Head(queue))
            /\ null_only' = (null_only /\ h = None)
            /\ IF Falsy(h)
               THEN FetchFailure(Head(queue))
               ELSE /\ success' = TRUE
                    /\ item_idx' = 1
                    /\ pc' = "items"
                    /\ UNCHANGED <<list_pages_log_file, seen_list_pages, stats>>
    /\ UNCHANGED <<files, items_log_file, seen_item_links, recipe, dry_run,
                   force, queued_urls, run, disk0, seen0, gap, crash, hist,
                   added, cleared, ops,
                   peer, saved,
                   args, result, web>>

\* _process_list_page, lines 171-178: one turn of the loop over item_links.
ProcessItem ==
    /\ pc = "items"
    /\ item_idx <= Len(html[1].item_links)
    /\ LET item == html[1].item_links[item_idx]
           canonical_url == canonicalize(item.url)
       IN  IF ~has_seen_item(canonical_url)
           THEN /\ IF ~dry_run
                   THEN /\ add_item(canonical_url, item.text, url)
                        /\ added' = Append(added, canonical_url)
                   ELSE UNCHANGED <<seen_item_links, items_log_file, added>>
                /\ stats' = [stats EXCEPT !.items_discovered = @ + 1]
           ELSE UNCHANGED <<seen_item_links, items_log_file, added, stats>>
    /\ item_idx' = item_idx + 1
    /\ UNCHANGED <<files, list_pages_log_file, seen_list_pages, recipe, dry_run,
                   force, queue, queued_urls, pc, url, html, success, run,
                   fetched, null_only, disk0, seen0, gap, crash, hist, cleared,
                   ops,
                   peer, saved,
                   args, result, web>>

\* _enqueue_pagination_links with appendleft for append
RECURSIVE _enqueue_pagination_links_at_front(_, _, _)
_enqueue_pagination_links_at_front(links, q, qu) ==
    IF links = <<>> THEN <<q, qu>>
    ELSE LET canonical_link == canonicalize(Head(links))
         IN  IF canonical_link \in qu \/ has_seen_list_page(canonical_link)
             THEN _enqueue_pagination_links_at_front(Tail(links), q, qu)
             ELSE _enqueue_pagination_links_at_front(Tail(links),
                      <<canonical_link>> \o q, qu \cup {canonical_link})

\* _enqueue_pagination_links without the queued_urls test
RECURSIVE _enqueue_pagination_links_queued_test_dropped(_, _, _)
_enqueue_pagination_links_queued_test_dropped(links, q, qu) ==
    IF links = <<>> THEN <<q, qu>>
    ELSE LET canonical_link == canonicalize(Head(links))
         IN  IF has_seen_list_page(canonical_link)
             THEN _enqueue_pagination_links_queued_test_dropped(Tail(links), q, qu)
             ELSE _enqueue_pagination_links_queued_test_dropped(Tail(links),
                      Append(q, canonical_link), qu \cup {canonical_link})

\* _enqueue_pagination_links without the has_seen_list_page test
RECURSIVE _enqueue_pagination_links_unseen_test_dropped(_, _, _)
_enqueue_pagination_links_unseen_test_dropped(links, q, qu) ==
    IF links = <<>> THEN <<q, qu>>
    ELSE LET canonical_link == canonicalize(Head(links))
         IN  IF canonical_link \in qu
             THEN _enqueue_pagination_links_unseen_test_dropped(Tail(links), q, qu)
             ELSE _enqueue_pagination_links_unseen_test_dropped(Tail(links),
                      Append(q, canonical_link), qu \cup {canonical_link})

\* _enqueue_pagination_links: <<queue, queued_urls>> after the links, given
\* <<q, qu>> before them.
RECURSIVE _enqueue_pagination_links(_, _, _)
_enqueue_pagination_links(links, q, qu) ==
    IF links = <<>> THEN <<q, qu>>
    ELSE LET canonical_link == canonicalize(Head(links))
         IN  IF canonical_link \in qu \/ has_seen_list_page(canonical_link)
             THEN _enqueue_pagination_links(Tail(links), q, qu)
             ELSE _enqueue_pagination_links(Tail(links),
                      Append(q, canonical_link), qu \cup {canonical_link})

\* the end of _process_list_page with the pagination links extracted and
\* enqueued whether or not the recipe has a pagination config
FinishPage_always_paginates ==
    /\ pc = "items"
    /\ item_idx > Len(html[1].item_links)
    /\ LET pagination_links == html[1].pagination_links
           enq == _enqueue_pagination_links(pagination_links, queue, queued_urls)
           s1 == [stats EXCEPT
                    !.pagination_links_found = @ + Len(pagination_links),
                    !.list_pages_visited = @ + 1]
       IN  /\ IF ~dry_run
              THEN /\ queue' = enq[1]
                   /\ queued_urls' = enq[2]
                   /\ mark_list_page_seen(url)
                   /\ append_list_page_log(url, "success",
                          Len(html[1].item_links), Len(pagination_links))
                   /\ gap' = gap \cup {url}
              ELSE UNCHANGED <<queue, queued_urls, seen_list_pages,
                               list_pages_log_file, gap>>
           /\ stats' = s1
           /\ success' = ~_should_stop(s1)
    /\ pc' = "after"
    /\ UNCHANGED <<files, items_log_file, seen_item_links, recipe, dry_run,
                   force, url, html, item_idx, run, fetched, null_only, disk0,
                   seen0, crash, hist, added, cleared, ops,
                   peer, saved,
                   args, result, web>>

\* _process_list_page, lines 185-217, after the loop over item_links: the
\* pagination links are enqueued, the page is marked seen and logged, and
\* the limits are checked.
FinishPage ==
    /\ pc = "items"
    /\ item_idx > Len(html[1].item_links)
    /\ LET pagination_links == IF recipe.pagination
                               THEN html[1].pagination_links ELSE <<>>
           enq == _enqueue_pagination_links(pagination_links, queue, queued_urls)
           s1 == [stats EXCEPT
                    !.pagination_links_found = @ + Len(pagination_links),
                    !.list_pages_visited = @ + 1]
       IN  /\ IF ~dry_run
              THEN /\ queue' = enq[1]
                   /\ queued_urls' = enq[2]
                   /\ mark_list_page_seen(url)
                   /\ append_list_page_log(url, "success",
                          Len(html[1].item_links), Len(pagination_links))
                   /\ gap' = gap \cup {url}
              ELSE UNCHANGED <<queue, queued_urls, seen_list_pages,
                               list_pages_log_file, gap>>
           /\ stats' = s1
           /\ success' = ~_should_stop(s1)
    /\ pc' = "after"
    /\ UNCHANGED <<files, items_log_file, seen_item_links, recipe, dry_run,
                   force, url, html, item_idx, run, fetched, null_only, disk0,
                   seen0, crash, hist, added, cleared, ops,
                   peer, saved,
                   args, result, web>>

\* crawl, lines 264-274, without the periodic save
AfterPage_without_periodic_save ==
    /\ pc = "after"
    /\ LET stop == _should_stop(stats)
           on_error == ~success /\ ~dry_run
       IN  /\ IF on_error
              THEN save /\ gap' = {}
              ELSE UNCHANGED <<files, gap>>
           /\ pc' = IF stop THEN "break" ELSE "loop"
    /\ UNCHANGED <<logs, store, recipe, crawler, url, html, item_idx, success,
                   run, fetched, null_only, disk0, seen0, crash, hist, added,
                   cleared, ops,
                   peer, saved,
                   args, result, web>>

\* crawl, lines 264-274: the save on a false result, the break on a limit,
\* the periodic save.
AfterPage ==
    /\ pc = "after"
    /\ LET stop == _should_stop(stats)
           on_error == ~success /\ ~dry_run
           periodic == /\ ~stop
                       /\ ~dry_run
                       /\ stats.list_pages_visited % SaveEvery = 0
       IN  /\ IF on_error \/ periodic
              THEN save /\ gap' = {}
              ELSE UNCHANGED <<files, gap>>
           /\ pc' = IF stop THEN "break" ELSE "loop"
    /\ UNCHANGED <<logs, store, recipe, crawler, url, html, item_idx, success,
                   run, fetched, null_only, disk0, seen0, crash, hist, added,
                   cleared, ops,
                   peer, saved,
                   args, result, web>>

\* the end of crawl without the final save
FinalSave_without_save ==
    /\ \/ pc = "break"
       \/ pc = "loop" /\ queue = <<>>
    /\ pc' = "done"
    /\ UNCHANGED <<files, gap, logs, store, recipe, crawler, url, html, item_idx,
                   success, run, fetched, null_only, disk0, seen0, crash, hist,
                   added, cleared, ops,
                   peer, saved,
                   args, result, web>>

\* crawl, lines 276-293: the loop has ended (the queue is empty or a limit
\* broke it); the final save and the summary.
FinalSave ==
    /\ \/ pc = "break"
       \/ pc = "loop" /\ queue = <<>>
    /\ IF ~dry_run
       THEN save /\ gap' = {}
       ELSE UNCHANGED <<files, gap>>
    /\ pc' = "done"
    /\ UNCHANGED <<logs, store, recipe, crawler, url, html, item_idx, success,
                   run, fetched, null_only, disk0, seen0, crash, hist, added,
                   cleared, ops,
                   peer, saved,
                   args, result, web>>

\* The process is killed while crawl runs: the files stay, the memory of the
\* process is gone.
Crash ==
    /\ pc \in {"loop", "items", "after", "break"}
    /\ pc' = "crashed"
    /\ crash' = [happened |-> TRUE, lost |-> gap,
                 pending |-> (Range(queue) \ Range(queue0)) \ seen_list_pages]
    /\ seen_list_pages' = {}
    /\ seen_item_links' = {}
    /\ queue' = <<>>
    /\ queued_urls' = {}
    /\ stats' = ZeroStats
    /\ url' = <<>>
    /\ html' = None
    /\ item_idx' = 0
    /\ success' = TRUE
    /\ gap' = {}
    /\ UNCHANGED <<files, logs, recipe, dry_run, force, run, fetched, null_only,
                   disk0, seen0, hist, added, cleared, ops,
                   peer, saved,
                   args, result, web>>

(***************************************************************************)
(* The crawler: runs of one recipe against one output directory, each      *)
(* with its own dry_run and force, each ending normally or in a crash.     *)
(***************************************************************************)
Init ==
    /\ seen_list_pages_file = Absent
    /\ seen_item_links_file = Absent
    /\ list_pages_log_file = <<>>
    /\ items_log_file = <<>>
    /\ seen_list_pages = {}
    /\ seen_item_links = {}
    /\ recipe \in RecipeSet
    /\ dry_run = FALSE
    /\ force = FALSE
    /\ queue = <<>>
    /\ queued_urls = {}
    /\ stats = ZeroStats
    /\ pc = "idle"
    /\ url = <<>>
    /\ html = None
    /\ item_idx = 0
    /\ success = TRUE
    /\ run = 0
    /\ fetched = <<>>
    /\ null_only = TRUE
    /\ disk0 = [seen_list_pages_file |-> Absent, seen_item_links_file |-> Absent,
                list_pages_log_file |-> <<>>, items_log_file |-> <<>>]
    /\ seen0 = [pages |-> {}, items |-> {}, log |-> 0]
    /\ gap = {}
    /\ crash = NoCrash
    /\ hist = [force |-> FALSE, crash |-> FALSE, dry |-> FALSE]
    /\ added = <<>>
    /\ cleared = FALSE
    /\ ops = 0
    /\ peer = NoPeer
    /\ saved = {}
    /\ args = NoArgs
    /\ result = NoCall
    /\ WebIdle

Next ==
    \/ \E d \in BOOLEAN, f \in BOOLEAN : Construct(d, f)
    \/ Dequeue
    \/ ProcessItem
    \/ FinishPage
    \/ AfterPage
    \/ FinalSave
    \/ Crash

Spec == Init /\ [][Next]_vars

(***************************************************************************)
(* The crawler on a directory whose files may fail to open for writing.    *)
(* save() opens seen_list_pages.json, writes it, then opens                *)
(* seen_item_links.json and writes it, with no exception handler; crawl    *)
(* calls save() with none either, and run_list_crawl wraps crawl in        *)
(* try/finally.  An OSError of open() therefore leaves crawl.              *)
(***************************************************************************)

\* save() raises: at the first open() (no file is written) or at the second
\* (seen_list_pages.json is written).
save_raises(at) ==
    /\ seen_list_pages_file' =
          (IF at = 1 THEN seen_list_pages_file ELSE FileOf(seen_list_pages))
    /\ seen_item_links_file' = seen_item_links_file

\* crawl, lines 264-278: one of its calls of save() raises and the
\* exception leaves crawl.
SaveRaises ==
    /\ ~dry_run
    /\ \/ /\ pc = "after"
          /\ \/ ~success
             \/ ~_should_stop(stats) /\ stats.list_pages_visited % SaveEvery = 0
       \/ pc = "break"
       \/ pc = "loop" /\ queue = <<>>
    /\ \E at \in {1, 2} : save_raises(at)
    /\ pc' = "raised"
    /\ UNCHANGED <<logs, store, recipe, crawler, url, html, item_idx, success,
                   run, fetched, null_only, disk0, seen0, gap, crash, hist,
                   added, cleared, ops,
                   peer, saved,
                   args, result, web>>

NextIO ==
    \/ Next
    \/ SaveRaises

SpecIO == Init /\ [][NextIO]_vars

(***************************************************************************)
(* The store alone: the calls of JSONStateStore in any order, on a store   *)
(* constructed on an empty directory, and a new store constructed on the   *)
(* directory as the calls left it.                                         *)
(***************************************************************************)
StoreItems == {ItemI, ItemJ}
StorePages == {PageA, PageB}

InitStore ==
    /\ seen_list_pages_file = Absent
    /\ seen_item_links_file = Absent
    /\ list_pages_log_file = <<>>
    /\ items_log_file = <<>>
    /\ seen_list_pages = {}
    /\ seen_item_links = {}
    /\ recipe = MkRecipe(<<PageA>>, TRUE, None, None)
    /\ dry_run = FALSE
    /\ force = FALSE
    /\ queue = <<>>
    /\ queued_urls = {}
    /\ stats = ZeroStats
    /\ pc = "store"
    /\ url = <<>>
    /\ html = None
    /\ item_idx = 0
    /\ success = TRUE
    /\ run = 0
    /\ fetched = <<>>
    /\ null_only = TRUE
    /\ disk0 = [seen_list_pages_file |-> Absent, seen_item_links_file |-> Absent,
                list_pages_log_file |-> <<>>, items_log_file |-> <<>>]
    /\ seen0 = [pages |-> {}, items |-> {}, log |-> 0]
    /\ gap = {}
    /\ crash = NoCrash
    /\ hist = [force |-> FALSE, crash |-> FALSE, dry |-> FALSE]
    /\ added = <<>>
    /\ cleared = FALSE
    /\ ops = 0
    /\ peer = NoPeer
    /\ saved = {}
    /\ args = NoArgs
    /\ result = NoCall
    /\ WebIdle

StoreFrame ==
    /\ ops < MaxOps
    /\ ops' = ops + 1
    /\ UNCHANGED <<recipe, crawler, locals, run, fetched, null_only, disk0,
                   gap, crash, hist, peer, saved,
                   args, result, web>>

StoreAddItem ==
    /\ \E u \in StoreItems, p \in StorePages :
        /\ add_item(u, "text", p)
        /\ added' = Append(added, u)
    /\ StoreFrame
    /\ UNCHANGED <<files, list_pages_log_file, seen_list_pages, seen0, cleared>>

StoreMarkListPageSeen ==
    /\ \E u \in StorePages : mark_list_page_seen(u)
    /\ StoreFrame
    /\ UNCHANGED <<files, logs, seen_item_links, seen0, added, cleared>>

StoreAppendListPageLog ==
    /\ \E u \in StorePages, st \in {"success", "error"} :
        append_list_page_log(u, st, 0, 0)
    /\ StoreFrame
    /\ UNCHANGED <<files, items_log_file, store, seen0, added, cleared>>

StoreSave ==
    /\ save
    /\ StoreFrame
    /\ UNCHANGED <<logs, store, seen0, added, cleared>>

StoreClear ==
    /\ clear
    /\ cleared' = TRUE
    /\ StoreFrame
    /\ UNCHANGED <<logs, seen0, added>>

\* JSONStateStore.__init__ on the directory as it is now
StoreReopen ==
    /\ _load_state
    /\ seen0' = [pages |-> seen_list_pages', items |-> seen_item_links',
                 log |-> Len(items_log_file)]
    /\ added' = <<>>
    /\ cleared' = FALSE
    /\ StoreFrame
    /\ UNCHANGED <<files, logs>>

NextStore ==
    \/ StoreAddItem
    \/ StoreMarkListPageSeen
    \/ StoreAppendListPageLog
    \/ StoreSave
    \/ StoreClear
    \/ StoreReopen

SpecStore == InitStore /\ [][NextStore]_vars

(***************************************************************************)
(* Two processes on one output directory, each with its own                *)
(* JSONStateStore, their store calls interleaved.  The variables           *)
(* seen_list_pages and seen_item_links are the sets of the process that is *)
(* running, peer holds those of the other; no call locks a file.           *)
(***************************************************************************)
TwoFrame ==
    /\ ops < MaxOps
    /\ ops' = ops + 1
    /\ UNCHANGED <<recipe, crawler, locals, run, fetched, null_only, disk0,
                   seen0, gap, crash, hist, added, cleared, args, result, web>>

TwoMarkListPageSeen ==
    /\ \E u \in StorePages : mark_list_page_seen(u)
    /\ TwoFrame
    /\ UNCHANGED <<files, logs, seen_item_links, peer, saved>>

TwoAddItem ==
    /\ \E u \in StoreItems : add_item(u, "text", PageA)
    /\ TwoFrame
    /\ UNCHANGED <<files, list_pages_log_file, seen_list_pages, peer, saved>>

TwoSave ==
    /\ save
    /\ saved' = saved \cup seen_list_pages
    /\ TwoFrame
    /\ UNCHANGED <<logs, store, peer>>

\* JSONStateStore.__init__ in the running process, on the directory as it is
TwoReopen ==
    /\ _load_state
    /\ TwoFrame
    /\ UNCHANGED <<files, logs, peer, saved>>

\* The scheduler runs the other process
TwoSwitch ==
    /\ seen_list_pages' = peer.seen_list_pages
    /\ seen_item_links' = peer.seen_item_links
    /\ peer' = [seen_list_pages |-> seen_list_pages,
                seen_item_links |-> seen_item_links]
    /\ TwoFrame
    /\ UNCHANGED <<files, logs, saved>>

NextTwo ==
    \/ TwoMarkListPageSeen
    \/ TwoAddItem
    \/ TwoSave
    \/ TwoReopen
    \/ TwoSwitch

SpecTwo == InitStore /\ [][NextTwo]_vars

(***************************************************************************)
(* Properties                                                              *)
(***************************************************************************)
Running == pc \in {"loop", "items", "after", "break"}

\* The seen sets a snapshot file loads to
Loaded(file) == IF file.exists THEN file.data ELSE {}

SuccessEntriesIn(log, u) ==
    Cardinality({ k \in DOMAIN log : log[k].url = u /\ log[k].status = "success" })

SuccessEntries(u) == SuccessEntriesIn(list_pages_log_file, u)

Occurrences(seq, u) == Cardinality({ k \in DOMAIN seq : seq[k] = u })

\* The entries add_item appended for u since the store was constructed
ItemEntriesSince(u) ==
    Cardinality({ k \in DOMAIN items_log_file :
                    k > seen0.log /\ items_log_file[k].url = u })

\* C1 (resumability, as claimed): when the first run, non-force and non-dry on
\* an empty directory under a recipe without limits, crashed with every page it had processed (two or more)
\* in the saved snapshot and with URLs found by pagination still waiting in
\* the queue, the restarted non-force, non-dry run, once done, has added no
\* success entry for a saved page and has fetched every URL that was waiting.
C1Resumability ==
    (/\ run = 2
     /\ pc = "done"
     /\ ~Truthy(recipe.limits.max_list_pages)
     /\ ~Truthy(recipe.limits.max_items)
     /\ ~hist.force
     /\ ~hist.dry
     /\ crash.happened
     /\ crash.lost = {}
     /\ Cardinality(Loaded(disk0.seen_list_pages_file)) >= 2)
    => /\ \A a \in Loaded(disk0.seen_list_pages_file) : SuccessEntries(a) = 1
       /\ \A c \in crash.pending : c \in Range(fetched)

\* C2 (dedup of the store): as long as clear() has not been called on a
\* store, the entries appended to items.jsonl since its construction are
\* exactly one for each URL add_item was called with that was not seen at
\* construction, however often it was called, and get_seen_items_count()
\* has risen by the number of those URLs.
C2DedupInvariant ==
    ~cleared =>
        /\ \A u \in StoreItems :
              ItemEntriesSince(u) =
                  IF u \in Range(added) \ seen0.items THEN 1 ELSE 0
        /\ Len(items_log_file) - seen0.log = Cardinality(Range(added) \ seen0.items)
        /\ get_seen_items_count =
              Cardinality(seen0.items) + Cardinality(Range(added) \ seen0.items)

\* add_item was called three times with one URL that was new at the first call
C2Witness ==
    /\ pc = "store"
    /\ ~cleared
    /\ \E i, j, k \in DOMAIN added :
          i < j /\ j < k /\ added[i] = added[j] /\ added[j] = added[k]
          /\ added[i] \notin seen0.items

\* C3 (stop on max_items, as claimed): with max_items = N >= 1,
\* items_discovered never exceeds N and add_item is called at most N times
\* in a run.
C3StopOnMaxItems ==
    (Truthy(recipe.limits.max_items) /\ pc # "store") =>
        /\ stats.items_discovered <= recipe.limits.max_items[1]
        /\ Len(added) <= recipe.limits.max_items[1]

\* C4 (stop on max_list_pages): with max_list_pages = N >= 1,
\* list_pages_visited never exceeds N, and once it equals N the run is past
\* the loop (at the check after the page, at the break or done): it is never
\* back at the loop's test, where the next URL would be dequeued.
C4StopOnMaxListPages ==
    Truthy(recipe.limits.max_list_pages) =>
        /\ stats.list_pages_visited <= recipe.limits.max_list_pages[1]
        /\ stats.list_pages_visited = recipe.limits.max_list_pages[1]
              => pc \in {"after", "break", "done"}

\* a run stopped by max_list_pages with URLs left in the queue
C4Witness ==
    /\ Truthy(recipe.limits.max_list_pages)
    /\ stats.list_pages_visited = recipe.limits.max_list_pages[1]
    /\ pc = "done"
    /\ queue # <<>>

\* The queue holds what is left of the seeded queue and nothing else
QueueIsRestOfSeeds ==
    \E k \in 0..Len(queue0) : queue = SubSeq(queue0, k + 1, Len(queue0))

\* C5 (dry run mutates no state, as claimed): during and after a dry run
\* the four files are as they were before the crawler was constructed, the
\* seen sets are what those snapshot files hold, and the queue holds only
\* seeded URLs.
C5DryRunMutatesNothing ==
    (dry_run /\ (Running \/ pc = "done")) =>
        /\ Disk = disk0
        /\ seen_list_pages = Loaded(disk0.seen_list_pages_file)
        /\ seen_item_links = Loaded(disk0.seen_item_links_file)
        /\ QueueIsRestOfSeeds

\* C6 (cross-run item dedup): as long as no run was forced and no run
\* crashed, items.jsonl holds at most one entry for each URL.
C6CrossRunItemDedup ==
    (~hist.force /\ ~hist.crash /\ pc # "store") =>
        \A i, j \in DOMAIN items_log_file :
            items_log_file[i].url = items_log_file[j].url => i = j

\* in a second run, after a first one that ended normally, a page is
\* fetched that links an item the first run logged
C6Witness ==
    /\ run = 2
    /\ ~hist.force /\ ~hist.crash /\ ~hist.dry
    /\ pc = "after"
    /\ html # None
    /\ \E k \in DOMAIN html[1].item_links :
          canonicalize(html[1].item_links[k].url) \in seen0.items

\* The error entry _process_list_page logs for u
ErrorEntry(u) ==
    [url |-> u, status |-> "error", items_found |-> 0, pagination_found |-> 0]

\* C7 (fetch failure): in a non-dry run, the step in which the fetch of the
\* dequeued URL returns None appends exactly one error entry with counts 0/0
\* for it and leaves both seen sets and items.jsonl as they are; the step
\* of crawl that follows leaves the URL unseen and the queue as it is and
\* is back at the loop's test (it does not break), unless the process is
\* killed.
C7FetchFailureHandling ==
    [][ /\ (/\ pc = "loop" /\ pc' = "after" /\ ~dry_run
            /\ fetched' # fetched /\ html' = None)
           => /\ list_pages_log_file' =
                    Append(list_pages_log_file, ErrorEntry(Head(queue)))
              /\ UNCHANGED <<seen_list_pages, seen_item_links, items_log_file>>
        /\ (/\ pc = "after" /\ ~dry_run /\ ~success /\ html = None
            /\ pc' # "crashed")
           => /\ pc' = "loop"
              /\ UNCHANGED <<queue, seen_list_pages, seen_item_links, logs>>
      ]_vars

\* after a failed fetch the run is back at the loop with a URL to dequeue
C7Witness ==
    /\ pc = "loop"
    /\ ~dry_run
    /\ ~success
    /\ html = None
    /\ queue # <<>>
    /\ list_pages_log_file # <<>>
    /\ list_pages_log_file[Len(list_pages_log_file)] = ErrorEntry(url)
    /\ url \notin seen_list_pages

\* C8 (a run in which every fetch fails), with the final save() of a non-dry
\* run: while every fetch of the run has returned None, the run never breaks
\* on a limit, only seeded URLs are dequeued (the dequeued and the waiting
\* URLs add up to the start URLs), seen_list_pages holds no URL it did not
\* hold at the start, a step of crawl is enabled until the run is done, and
\* when it is done the queue is empty and, in a non-dry run, the snapshot
\* files hold the seen sets.
C8AllFetchesFail ==
    (null_only /\ pc \in {"loop", "after", "break", "done"}) =>
        /\ pc # "break"
        /\ Len(fetched) + stats.list_pages_skipped + Len(queue)
              = Len(recipe.start_urls)
        /\ seen_list_pages \subseteq seen0.pages
        /\ pc # "done" => ENABLED (Dequeue \/ AfterPage \/ FinalSave)
        /\ pc = "done" =>
              /\ queue = <<>>
              /\ ~dry_run =>
                    /\ seen_list_pages_file = FileOf(seen_list_pages)
                    /\ seen_item_links_file = FileOf(seen_item_links)

\* a non-dry run of two start URLs, both fetches failed, is done
C8Witness ==
    /\ pc = "done"
    /\ null_only
    /\ ~dry_run
    /\ Len(fetched) = 2
    /\ seen_list_pages_file = FileOf(seen_list_pages)

\* C8 as claimed: when a run in which every fetch returned None is done, the
\* queue is empty, the final save() has written the snapshot files, and
\* seen_list_pages holds no URL it did not hold at the start.
C8AsClaimed ==
    (null_only /\ pc = "done") =>
        /\ queue = <<>>
        /\ seen_list_pages_file = FileOf(seen_list_pages)
        /\ seen_item_links_file = FileOf(seen_item_links)
        /\ seen_list_pages \subseteq seen0.pages

\* seen_list_pages at the moment a step appends to the queue: __init__ loads
\* (or clears) the store before it seeds the queue; _process_list_page
\* enqueues the pagination links before it marks the page seen.
SeenWhenEnqueued ==
    IF pc \in {"idle", "done", "crashed"} THEN seen_list_pages' ELSE seen_list_pages

\* The queue before a step: a crawler under construction starts with none
QueueBefore == IF pc \in {"idle", "done", "crashed"} THEN <<>> ELSE queue

\* C9 (seen pages are never re-enqueued), for the queue after seeding: in a
\* run without force no step of crawl appends to the queue a URL that is in
\* seen_list_pages, nor appends a success entry for one.
C9SeenNeverReenqueued ==
    [][ (Running /\ ~force) =>
            \A u \in seen_list_pages :
                /\ Occurrences(queue', u) <= Occurrences(queue, u)
                /\ SuccessEntriesIn(list_pages_log_file', u) = SuccessEntries(u)
      ]_vars

\* a page of a non-force run links a seen page, which is not enqueued
C9Witness ==
    /\ pc = "after"
    /\ ~force /\ ~dry_run
    /\ recipe.pagination
    /\ html # None
    /\ \E k \in DOMAIN html[1].pagination_links :
          LET l == canonicalize(html[1].pagination_links[k])
          IN  l # url /\ l \in seen_list_pages /\ l \notin Range(queue)
              /\ l \notin queued_urls

\* C9 as claimed: in a run without force no step, the seeding of the queue
\* included, appends to the queue a URL that is in seen_list_pages at that
\* moment, nor appends a success entry for one.
C9AsClaimed ==
    [][ (~force' /\ pc' # "crashed") =>
            \A u \in SeenWhenEnqueued :
                /\ Occurrences(queue', u) <= Occurrences(QueueBefore, u)
                /\ SuccessEntriesIn(list_pages_log_file', u) = SuccessEntries(u)
      ]_vars

\* C10 (crash recovery, as claimed): a non-force run started after a crash
\* starts with the seen sets of the snapshot files, and once it is done it
\* has fetched every page the crashed run had marked seen after its last
\* save().  The second half is stated for the restarted run whose start
\* URLs are all in the snapshot, where no fetch outcome of the restarted
\* run decides it.
C10CrashRecovery ==
    (crash.happened /\ ~force /\ (Running \/ pc = "done")) =>
        /\ seen0.pages = Loaded(disk0.seen_list_pages_file)
        /\ seen0.items = Loaded(disk0.seen_item_links_file)
        /\ (pc = "done" /\ Range(queue0) \subseteq seen0.pages)
              => crash.lost \subseteq Range(fetched)

\* C11 (checkpoint at loop exit): when crawl has returned in a non-dry run,
\* seen_list_pages.json holds seen_list_pages and seen_item_links.json holds
\* seen_item_links.
C11CheckpointAtLoopExit ==
    (pc = "done" /\ ~dry_run) =>
        /\ seen_list_pages_file = FileOf(seen_list_pages)
        /\ seen_item_links_file = FileOf(seen_item_links)

\* a non-dry run that a limit stopped with URLs left in the queue has
\* returned, with pages and items seen that were not seen at its start
C11Witness ==
    /\ pc = "done"
    /\ ~dry_run
    /\ queue # <<>>
    /\ seen_list_pages # seen0.pages
    /\ seen_item_links # seen0.items
    /\ seen_list_pages_file = FileOf(seen_list_pages)

\* The log `before` is the beginning of the log `after`
IsPrefix(before, after) ==
    /\ Len(before) <= Len(after)
    /\ SubSeq(after, 1, Len(before)) = before

\* C12 (the logs are append-only): in every step, of a run, of the
\* construction of a crawler (clear() under force included) and of a crash,
\* items.jsonl and list_pages.jsonl before the step are the beginning of
\* what they are after it.
C12LogsAppendOnly ==
    [][ /\ IsPrefix(items_log_file, items_log_file')
        /\ IsPrefix(list_pages_log_file, list_pages_log_file')
      ]_vars

\* a crawler constructed with force after a crash: clear() has run and
\* both logs still hold the entries of the crashed run
C12Witness ==
    /\ pc = "loop"
    /\ cleared
    /\ hist.crash
    /\ items_log_file # <<>>
    /\ Len(list_pages_log_file) >= 2
    /\ seen_list_pages_file = Absent

\* The entries list_pages.jsonl has gained since the crawler was constructed
RunPageLog ==
    SubSeq(list_pages_log_file, Len(disk0.list_pages_log_file) + 1,
           Len(list_pages_log_file))

\* The entries for u among them
RunPageEntries(u) ==
    Cardinality({ k \in DOMAIN RunPageLog : RunPageLog[k].url = u })

\* The fetches of u whose page has been handled to its log entry: while the
\* items of the fetched page are being added, its entry is still to come.
FetchesLogged(u) ==
    Occurrences(fetched, u) - (IF pc = "items" /\ u = url THEN 1 ELSE 0)

\* C13 (one page-log entry per attempt): in a non-dry run, for every URL
\* the entries appended to list_pages.jsonl in the run are as many as the
\* fetches of that URL (a skipped URL, never fetched, has none; a URL with
\* an entry from before gets another), each with status success or error,
\* and the entries appended in the run are as many as the fetches.
C13OneEntryPerAttempt ==
    (~dry_run /\ (Running \/ pc = "done")) =>
        /\ \A u \in Range(fetched) \cup { RunPageLog[k].url : k \in DOMAIN RunPageLog } :
              RunPageEntries(u) = FetchesLogged(u)
        /\ Len(RunPageLog) = Len(fetched) - (IF pc = "items" THEN 1 ELSE 0)
        /\ \A k \in DOMAIN RunPageLog :
              RunPageLog[k].status \in {"success", "error"}

\* a non-dry run has returned that skipped one URL and fetched another,
\* which had an entry from the run before and has got one more
C13Witness ==
    /\ pc = "done"
    /\ ~dry_run
    /\ stats.list_pages_skipped >= 1
    /\ \E u \in Range(fetched) :
          /\ RunPageEntries(u) = 1
          /\ \E k \in DOMAIN disk0.list_pages_log_file :
                disk0.list_pages_log_file[k].url = u

\* What a step has appended to the queue
Appended == SubSeq(queue', Len(queue) + 1, Len(queue'))

\* The URLs of app are canonical forms of links, in the order of links
InOrderOf(app, links) ==
    /\ \A i \in DOMAIN app :
          \E a \in DOMAIN links : canonicalize(links[a]) = app[i]
    /\ \A i, j \in DOMAIN app :
          i < j => \E a, b \in DOMAIN links :
                      /\ a < b
                      /\ canonicalize(links[a]) = app[i]
                      /\ canonicalize(links[b]) = app[j]

\* C14 (FIFO order): the construction of the crawler makes the queue the
\* canonical start URLs in the order of the recipe; a step of a run either
\* leaves the queue as it is, or takes the URL at its front (the URL it then
\* processes) and leaves the rest, or appends at its back canonical forms of
\* the page's pagination links in the order of the page, leaving what was
\* queued before in front of them.
C14FifoOrder ==
    [][ /\ (pc \in {"idle", "done", "crashed"} /\ pc' = "loop") =>
              /\ Len(queue') = Len(recipe.start_urls)
              /\ \A k \in DOMAIN queue' :
                    queue'[k] = canonicalize(recipe.start_urls[k])
        /\ (Running /\ pc' # "crashed") =>
              \/ queue' = queue
              \/ /\ pc = "loop"
                 /\ queue # <<>>
                 /\ queue' = Tail(queue)
                 /\ url' = Head(queue)
              \/ /\ pc = "items"
                 /\ IsPrefix(queue, queue')
                 /\ InOrderOf(Appended, html[1].pagination_links)
      ]_vars

\* the page of the first start URL has been processed: its pagination link
\* is queued behind the second start URL
C14Witness ==
    /\ pc = "after"
    /\ url = PageA
    /\ html # None
    /\ queue = <<PageX, PageB>>

\* C15 (no duplicate in the queue, as claimed): at every point of a run the
\* queue holds each URL at most once.
C15NoDuplicateInQueue ==
    Running =>
        \A i, j \in DOMAIN queue : queue[i] = queue[j] => i = j

\* The URLs whose fetch has failed in the run: those of its error entries
FailedInRun ==
    { RunPageLog[k].url : k \in { n \in DOMAIN RunPageLog :
                                     RunPageLog[n].status = "error" } }

\* C16 (a failed page is not retried in the same run, as claimed): no step
\* of a run appends to the queue a URL whose fetch has failed in that run.
C16FailedNotRetried ==
    [][ (Running /\ pc' # "crashed") =>
            \A u \in FailedInRun : Occurrences(queue', u) <= Occurrences(queue, u)
      ]_vars

\* C17 (a skip leaves the state untouched): in a run without force, the
\* step that dequeues a URL that is in seen_list_pages fetches nothing,
\* leaves both logs, both seen sets and the rest of the queue as they are,
\* and changes no statistic but list_pages_skipped, which it raises by one.
C17SkipLeavesStateUntouched ==
    [][ (/\ pc = "loop"
         /\ ~force
         /\ queue # <<>>
         /\ Head(queue) \in seen_list_pages
         /\ pc' # "crashed")
        => /\ queue' = Tail(queue)
           /\ fetched' = fetched
           /\ UNCHANGED <<logs, seen_list_pages, seen_item_links>>
           /\ stats' = [stats EXCEPT !.list_pages_skipped = @ + 1]
      ]_vars

\* a seen URL has been skipped, with a URL left in the queue, in a run that
\* has the entries of an earlier run in its logs
C17Witness ==
    /\ pc = "after"
    /\ ~force
    /\ ~dry_run
    /\ url \in seen_list_pages
    /\ stats.list_pages_skipped = 1
    /\ fetched = <<>>
    /\ queue # <<>>
    /\ items_log_file # <<>>

\* C18 (force and clear): the construction of a crawler with force, which
\* calls clear(), leaves both seen sets empty and both snapshot files
\* absent and leaves both logs as they are; in the run that follows, every
\* step that dequeues a URL fetches it, and no URL is counted as skipped.
C18ForceClear ==
    [][ /\ (pc \in {"idle", "done", "crashed"} /\ pc' = "loop" /\ force') =>
              /\ seen_list_pages' = {}
              /\ seen_item_links' = {}
              /\ seen_list_pages_file' = Absent
              /\ seen_item_links_file' = Absent
              /\ UNCHANGED logs
        /\ (pc = "loop" /\ force /\ queue # <<>> /\ pc' # "crashed") =>
              /\ queue' = Tail(queue)
              /\ fetched' = Append(fetched, Head(queue))
        /\ (Running /\ force /\ pc' # "crashed") =>
              stats'.list_pages_skipped = 0
      ]_vars

\* a forced run on a directory that held snapshots and logs has fetched a
\* URL the snapshot held, and a URL it had itself marked seen
C18Witness ==
    /\ pc = "after"
    /\ force
    /\ disk0.seen_list_pages_file.exists
    /\ disk0.items_log_file # <<>>
    /\ IsPrefix(disk0.items_log_file, items_log_file)
    /\ url \in disk0.seen_list_pages_file.data
    /\ Occurrences(fetched, url) = 2
    /\ stats.list_pages_skipped = 0

\* C19 (a failure of save() is not fatal, as claimed): a run with URLs left
\* in its queue is never left by an exception of save(); after a save()
\* that failed the run is still in crawl, on its way to the next URL.
C19PersistenceFailureNotFatal == queue # <<>> => pc # "raised"

\* C20 (every non-null fetch result is processed, as claimed): the step
\* that fetches a URL and gets a result other than None, the empty text
\* included, goes on to the extraction of the page (the PROCESSED path) and
\* appends no error entry; only None takes the FAILED path.
C20NonNullIsProcessed ==
    [][ (pc = "loop" /\ fetched' # fetched /\ html' # None) =>
            /\ pc' = "items"
            /\ success'
            /\ list_pages_log_file' = list_pages_log_file
      ]_vars

\* C21 (without pagination only start URLs are processed): under a recipe
\* with no pagination config the construction of the crawler makes the
\* queue the canonical start URLs; no step of the run makes it grow; a
\* step that changes it takes the URL at its front, which is the URL then
\* processed, and leaves the rest; and a run that has returned without a
\* limit reached has emptied it.
C21OnlyStartUrlsWithoutPagination ==
    [][ ~recipe.pagination =>
            /\ (pc \in {"idle", "done", "crashed"} /\ pc' = "loop") =>
                  queue' = queue0
            /\ (Running /\ pc' # "crashed") =>
                  /\ Len(queue') <= Len(queue)
                  /\ queue' # queue => (queue' = Tail(queue) /\ url' = Head(queue))
                  /\ (pc' = "done" /\ ~_should_stop(stats)) => queue' = <<>>
      ]_vars

\* under a recipe with no pagination config a page has been processed in
\* which pagination links could be found, and the queue holds the start
\* URLs that are left
C21Witness ==
    /\ ~recipe.pagination
    /\ ~dry_run
    /\ pc = "after"
    /\ html # None
    /\ html[1].pagination_links # <<>>
    /\ url \in seen_list_pages
    /\ queue = Tail(queue0)

\* C22 (two instances on one directory, last writer wins): a step that
\* changes a snapshot file leaves in it the seen set of the process that
\* took the step and nothing of what the file held before.
C22LastWriterWins ==
    [][ /\ seen_list_pages_file' # seen_list_pages_file =>
              seen_list_pages_file' = FileOf(seen_list_pages)
        /\ seen_item_links_file' # seen_item_links_file =>
              seen_item_links_file' = FileOf(seen_item_links)
      ]_vars

\* the lost update: seen_list_pages.json, just written by the running
\* process, no longer holds a URL that the other process marked seen and a
\* save() had written
C22Witness ==
    /\ seen_list_pages_file = FileOf(seen_list_pages)
    /\ \E u \in saved :
          /\ u \in peer.seen_list_pages
          /\ u \notin seen_list_pages
          /\ u \notin seen_list_pages_file.data

(***************************************************************************)
(* Calls of one function.  The specifications below draw the arguments of *)
(* a call from a bounded set and apply the function once; nothing else of  *)
(* the program runs.                                                       *)
(***************************************************************************)
InitCall ==
    /\ seen_list_pages_file = Absent
    /\ seen_item_links_file = Absent
    /\ list_pages_log_file = <<>>
    /\ items_log_file = <<>>
    /\ seen_list_pages = {}
    /\ seen_item_links = {}
    /\ recipe = MkRecipe(<<PageA>>, TRUE, None, None)
    /\ dry_run = FALSE
    /\ force = FALSE
    /\ queue = <<>>
    /\ queued_urls = {}
    /\ stats = ZeroStats
    /\ pc = "call"
    /\ url = <<>>
    /\ html = None
    /\ item_idx = 0
    /\ success = TRUE
    /\ run = 0
    /\ fetched = <<>>
    /\ null_only = TRUE
    /\ disk0 = [seen_list_pages_file |-> Absent, seen_item_links_file |-> Absent,
                list_pages_log_file |-> <<>>, items_log_file |-> <<>>]
    /\ seen0 = [pages |-> {}, items |-> {}, log |-> 0]
    /\ gap = {}
    /\ crash = NoCrash
    /\ hist = [force |-> FALSE, crash |-> FALSE, dry |-> FALSE]
    /\ added = <<>>
    /\ cleared = FALSE
    /\ ops = 0
    /\ peer = NoPeer
    /\ saved = {}
    /\ result = NoCall
    /\ WebIdle

CallFrame ==
    /\ result = NoCall
    /\ UNCHANGED <<files, logs, store, recipe, crawler, locals, run, fetched,
                   null_only, disk0, seen0, gap, crash, hist, added, cleared,
                   ops, peer, saved, args, web>>

\* What a call leaves behind: the value it returned, or the error it raised
Returned(value) == [called |-> TRUE, raised |-> FALSE, value |-> value]
Raised(error) == [called |-> TRUE, raised |-> TRUE, error |-> error]

(***************************************************************************)
(* recipe_loader.py: Recipe.from_dict.  A value loaded from YAML carries   *)
(* its Python type; a dictionary is a function on the keys it holds.       *)
(***************************************************************************)
Null == [t |-> "none"]
Str(s) == [t |-> "str", v |-> s]
List(l) == [t |-> "list", v |-> l]
Num(n) == [t |-> "int", v |-> n]
Dict(d) == [t |-> "dict", v |-> d]

\* dict.get(key, default) and dict.get(key)
get2(d, key, default) == IF key \in DOMAIN d THEN d[key] ELSE default
get(d, key) == get2(d, key, Null)

\* bool(x)
truth(x) ==
    CASE x.t = "none" -> FALSE
      [] x.t = "int" -> x.v # 0
      [] x.t = "dict" -> DOMAIN x.v # {}
      [] OTHER -> Len(x.v) # 0

Whitespace == {" ", "\t", "\n", "\r"}

RECURSIVE lstrip(_)
lstrip(s) == IF s # <<>> /\ Head(s) \in Whitespace THEN lstrip(Tail(s)) ELSE s

RECURSIVE rstrip(_)
rstrip(s) ==
    IF s # <<>> /\ s[Len(s)] \in Whitespace
    THEN rstrip(SubSeq(s, 1, Len(s) - 1))
    ELSE s

\* str.strip()
strip(s) == rstrip(lstrip(s))

type_next == <<"n", "e", "x", "t">>
type_all_links == <<"a", "l", "l", "_", "l", "i", "n", "k", "s">>
type_url_template == <<"u", "r", "l", "_", "t", "e", "m", "p", "l", "a", "t", "e">>

\* pagination_type == name
IsStr(x, name) == x.t = "str" /\ x.v = name

\* from_dict's tests of the fields the pagination type requires, with the
\* page_end test left out
MissingRequired_without_page_end(pagination_type, pagination_data) ==
    IF IsStr(pagination_type, type_next) /\ "next_css" \notin DOMAIN pagination_data
    THEN <<"'pagination.next_css' is required for type 'next'">>
    ELSE IF IsStr(pagination_type, type_all_links)
            /\ "pagination_scope_css" \notin DOMAIN pagination_data
    THEN <<"'pagination.pagination_scope_css' is required for type 'all_links'">>
    ELSE IF IsStr(pagination_type, type_url_template)
            /\ "page_param" \notin DOMAIN pagination_data
    THEN <<"'pagination.page_param' is required for type 'url_template'">>
    ELSE IF IsStr(pagination_type, type_url_template)
            /\ "page_start" \notin DOMAIN pagination_data
    THEN <<"'pagination.page_start' is required for type 'url_template'">>
    ELSE None

\* from_dict's tests of the fields the pagination type requires: the error
\* raised, or None
MissingRequired(pagination_type, pagination_data) ==
    IF IsStr(pagination_type, type_next) /\ "next_css" \notin DOMAIN pagination_data
    THEN <<"'pagination.next_css' is required for type 'next'">>
    ELSE IF IsStr(pagination_type, type_all_links)
            /\ "pagination_scope_css" \notin DOMAIN pagination_data
    THEN <<"'pagination.pagination_scope_css' is required for type 'all_links'">>
    ELSE IF IsStr(pagination_type, type_url_template)
            /\ "page_param" \notin DOMAIN pagination_data
    THEN <<"'pagination.page_param' is required for type 'url_template'">>
    ELSE IF IsStr(pagination_type, type_url_template)
            /\ "page_start" \notin DOMAIN pagination_data
    THEN <<"'pagination.page_start' is required for type 'url_template'">>
    ELSE IF IsStr(pagination_type, type_url_template)
            /\ "page_end" \notin DOMAIN pagination_data
    THEN <<"'pagination.page_end' is required for type 'url_template'">>
    ELSE None

\* The error from_dict raises while it parses data['pagination'], or None
PaginationError(pagination_data) ==
    IF pagination_data.t # "dict"
    THEN <<"'pagination' must be a dictionary">>
    ELSE IF ~truth(get(pagination_data.v, "type"))
    THEN <<"'pagination.type' is required">>
    ELSE IF ~\E name \in {type_next, type_all_links, type_url_template} :
                IsStr(get(pagination_data.v, "type"), name)
    THEN <<"Invalid pagination type">>
    ELSE MissingRequired(get(pagination_data.v, "type"), pagination_data.v)

PaginationConfig(pagination_data) ==
    [type |-> get(pagination_data, "type"),
     next_css |-> get(pagination_data, "next_css"),
     pagination_scope_css |-> get(pagination_data, "pagination_scope_css"),
     page_param |-> get(pagination_data, "page_param"),
     page_start |-> get(pagination_data, "page_start"),
     page_end |-> get(pagination_data, "page_end")]

LimitsConfig(data) ==
    IF "limits" \in DOMAIN data /\ data["limits"].t = "dict"
    THEN [max_list_pages |-> get(data["limits"].v, "max_list_pages"),
          max_items |-> get(data["limits"].v, "max_items")]
    ELSE [max_list_pages |-> Null, max_items |-> Null]

from_dict(data) ==
    IF "start_urls" \notin DOMAIN data
    THEN Raised("Recipe must have 'start_urls' field")
    ELSE IF "list_scope_css" \notin DOMAIN data
    THEN Raised("Recipe must have 'list_scope_css' field")
    ELSE IF data["start_urls"].t # "list" \/ ~truth(data["start_urls"])
    THEN Raised("'start_urls' must be a non-empty list")
    ELSE IF data["list_scope_css"].t # "str"
            \/ strip(data["list_scope_css"].v) = <<>>
    THEN Raised("'list_scope_css' must be a non-empty string")
    ELSE IF "pagination" \in DOMAIN data
            /\ PaginationError(data["pagination"]) # None
    THEN Raised(PaginationError(data["pagination"])[1])
    ELSE Returned([start_urls |-> data["start_urls"],
                   list_scope_css |-> data["list_scope_css"],
                   item_link_css |-> get2(data, "item_link_css",
                                          Str(<<"a", "[", "h", "r", "e", "f", "]">>)),
                   pagination |-> IF "pagination" \in DOMAIN data
                                  THEN Some(PaginationConfig(data["pagination"].v))
                                  ELSE None,
                   limits |-> LimitsConfig(data)])

\* The dictionary holding the keys of choice whose value is not Missing
Missing == [t |-> "missing"]
DictOf(choice) == [k \in {key \in DOMAIN choice : choice[key] # Missing} |-> choice[k]]

\* The dictionaries a YAML recipe file can load to
PaginationDicts ==
    { DictOf([type |-> t, next_css |-> n, pagination_scope_css |-> s,
              page_param |-> p, page_start |-> a, page_end |-> b]) :
        t \in {Missing, Null, Str(<<>>), Str(type_next), Str(type_all_links),
               Str(type_url_template), Str(<<"p", "r", "e", "v">>)},
        n \in {Missing, Null, Str(<<"a">>)},
        s \in {Missing, Null, Str(<<"n", "a", "v">>)},
        p \in {Missing, Null, Str(<<"p">>)},
        a \in {Missing, Null, Num(1)},
        b \in {Missing, Null, Num(2)} }

RawRecipes ==
    { DictOf([start_urls |-> u, list_scope_css |-> c, pagination |-> p]) :
        u \in {Missing, List(<<>>), List(<<Str(PageA)>>), Str(PageA)},
        c \in {Missing, Str(<<>>), Str(<<" ">>), Str(<<"d", "i", "v">>)},
        p \in {Missing, Null} \cup {Dict(d) : d \in PaginationDicts} }

InitRecipe ==
    /\ InitCall
    /\ args \in {[fn |-> "from_dict", data |-> data] : data \in RawRecipes}

CallFromDict ==
    /\ CallFrame
    /\ args.fn = "from_dict"
    /\ result' = from_dict(args.data)

NextRecipe == CallFromDict

SpecRecipe == InitRecipe /\ [][NextRecipe]_vars

\* What spec.md calls invalid input of from_dict
StartUrlsMissingOrEmpty(data) ==
    \/ "start_urls" \notin DOMAIN data
    \/ data["start_urls"].t = "list" /\ data["start_urls"].v = <<>>

ListScopeMissingOrBlank(data) ==
    \/ "list_scope_css" \notin DOMAIN data
    \/ data["list_scope_css"].t = "str" /\ strip(data["list_scope_css"].v) = <<>>

\* The fields spec.md says each pagination type requires
RequiredFields(type) ==
    IF type = type_next THEN {"next_css"}
    ELSE IF type = type_all_links THEN {"pagination_scope_css"}
    ELSE IF type = type_url_template THEN {"page_param", "page_start", "page_end"}
    ELSE {}

PaginationInvalid(data) ==
    /\ "pagination" \in DOMAIN data
    /\ data["pagination"].t = "dict"
    /\ \/ "type" \notin DOMAIN data["pagination"].v
       \/ data["pagination"].v["type"].t # "str"
       \/ data["pagination"].v["type"].v
             \notin {type_next, type_all_links, type_url_template}
       \/ ~(RequiredFields(data["pagination"].v["type"].v)
               \subseteq DOMAIN data["pagination"].v)

\* C23: from_dict raises, and so returns no Recipe, whenever start_urls is
\* missing or empty, list_scope_css is missing or blank, pagination.type is
\* missing or not one of next, all_links, url_template, or a field the
\* pagination type requires is absent.
C23RejectsInvalidInput ==
    (/\ result.called
     /\ args.fn = "from_dict"
     /\ \/ StartUrlsMissingOrEmpty(args.data)
        \/ ListScopeMissingOrBlank(args.data)
        \/ PaginationInvalid(args.data))
    => result.raised

\* C23 witness: a url_template recipe that is valid but for its missing
\* page_end has been rejected.
C23Witness ==
    /\ result.called
    /\ args.fn = "from_dict"
    /\ result.raised
    /\ ~StartUrlsMissingOrEmpty(args.data)
    /\ ~ListScopeMissingOrBlank(args.data)
    /\ "pagination" \in DOMAIN args.data
    /\ args.data["pagination"].t = "dict"
    /\ IsStr(get(args.data["pagination"].v, "type"), type_url_template)
    /\ DOMAIN args.data["pagination"].v
          = {"type", "page_param", "page_start", "next_css"}

\* C24: every Recipe from_dict returns with a pagination config has each
\* field its pagination type requires set to a value, not null.
C24RequiredFieldsSet ==
    (/\ result.called
     /\ args.fn = "from_dict"
     /\ ~result.raised
     /\ result.value.pagination # None)
    => \A f \in RequiredFields(result.value.pagination[1].type.v) :
          result.value.pagination[1][f] # Null

(***************************************************************************)
(* extractors/list_page.py: calls of canonicalize on bounded URLs, each    *)
(* the concatenation of a scheme, a host, a path, a query and a fragment.  *)
(***************************************************************************)
UrlSchemes == { <<>>,
              <<"h", "t", "t", "p", "s", ":">> }
UrlHosts == { <<>>,
            <<"/", "/", "x", ".", "t", "e", "s", "t">> }
UrlPaths == { <<>>,
            <<"/">>,
            <<"/", "p">>,
            <<"/", "p", "/">>,
            <<"/", "p", "/", "/">>,
            <<"/", "p", "/", "q", "/">>,
            <<"/", "p", ";", "/">>,
            <<"/", "p", ";", "v">>,
            <<"p", "/">> }
UrlQueries == { <<>>,
              <<"?">>,
              <<"?", "i", "d", "=", "1">>,
              <<"?", "u", "t", "m", "_", "s", "o", "u", "r", "c", "e", "=", "a", "&", "i", "d", "=", "1">>,
              <<"?", "u", "t", "m", "_", "i", "d", "=", "7", "&", "i", "d", "=", "1">>,
              <<"?", "a", "=", "1", "&", "b", "=", "2", "&", "a", "=", "3">>,
              <<"?", "r", "e", "f", "=", "r">>,
              <<"?", "i", "d", "=", "1", "&", "i", "d", "=", "2">>,
              <<"?", "i", "d">>,
              <<"?", "b", "=", "2", "&", "s", "o", "u", "r", "c", "e", "=", "s", "&", "a", "=", "1">> }
UrlFragments == { <<>>,
                <<"#">>,
                <<"#", "s">> }

Urls ==
    { s \o h \o p \o q \o f :
        s \in UrlSchemes, h \in UrlHosts, p \in UrlPaths, q \in UrlQueries,
        f \in UrlFragments }

InitCanonicalize ==
    /\ InitCall
    /\ args \in { [fn |-> "canonicalize", url |-> u, strip_tracking_params |-> s] :
                    u \in Urls, s \in BOOLEAN }

CallCanonicalize ==
    /\ CallFrame
    /\ args.fn = "canonicalize"
    /\ result' = Returned(canonicalize2(args.url, args.strip_tracking_params))

NextCanonicalize == CallCanonicalize

SpecCanonicalize == InitCanonicalize /\ [][NextCanonicalize]_vars

Canonicalized == result.called /\ args.fn = "canonicalize"

\* C25: canonicalize is idempotent: for every URL u and either value of
\* strip_tracking_params, canonicalize(canonicalize(u)) = canonicalize(u).
C25Idempotent ==
    Canonicalized
    => canonicalize2(result.value, args.strip_tracking_params) = result.value

\* The name of a query parameter begins with utm_
HasUtmPrefix(name) == Len(name) >= 4 /\ SubSeq(name, 1, 4) = <<"u", "t", "m", "_">>

\* The path without its trailing slashes; the path '/' as it is
LastNonSlash(path) ==
    IF \E k \in 1..Len(path) : path[k] # "/"
    THEN CHOOSE k \in 1..Len(path) :
            path[k] # "/" /\ \A j \in (k + 1)..Len(path) : path[j] = "/"
    ELSE 0

WithoutTrailingSlashes(path) ==
    IF path = <<"/">> THEN path ELSE SubSeq(path, 1, LastNonSlash(path))

\* The path without one trailing slash; the path '/' as it is
WithoutOneTrailingSlash(path) ==
    IF path # <<"/">> /\ path # <<>> /\ path[Len(path)] = "/"
    THEN SubSeq(path, 1, Len(path) - 1)
    ELSE path

\* The URL has a host, and no ';' in its path
PlainUrl(parsed) == parsed.netloc # <<>> /\ Find(parsed.path, ";", 1) = 0

\* C26 (as amended): canonicalize strips the fragment and removes every
\* trailing slash of the path unless the path is exactly '/', which it keeps;
\* for a URL with a host and no ';' in its path, the scheme, the host and the
\* rest of the path are unchanged.
C26FragmentAndTrailingSlashes ==
    Canonicalized
    => /\ Find(result.value, "#", 1) = 0
       /\ PlainUrl(urlparse(args.url))
          => /\ urlparse(result.value).scheme = urlparse(args.url).scheme
             /\ urlparse(result.value).netloc = urlparse(args.url).netloc
             /\ urlparse(result.value).path
                   = WithoutTrailingSlashes(urlparse(args.url).path)

\* C26 witness: canonicalize has returned for a URL with a host, a fragment
\* and a path that ends in two slashes.
C26Witness ==
    /\ Canonicalized
    /\ PlainUrl(urlparse(args.url))
    /\ urlparse(args.url).path = <<"/", "p", "/", "/">>
    /\ urlparse(args.url).fragment # <<>>
    /\ urlparse(result.value).path = <<"/", "p">>

\* C26 (as claimed): canonicalize strips the fragment and removes exactly one
\* trailing slash from a non-root path, keeps the root path '/', and leaves
\* scheme, host and the rest of the path unchanged.
C26AsClaimed ==
    (Canonicalized /\ PlainUrl(urlparse(args.url)))
    => /\ Find(result.value, "#", 1) = 0
       /\ urlparse(result.value).scheme = urlparse(args.url).scheme
       /\ urlparse(result.value).netloc = urlparse(args.url).netloc
       /\ urlparse(result.value).path
             = WithoutOneTrailingSlash(urlparse(args.url).path)

\* The parameters spec.md says canonicalize removes
ClaimedTracking(name) == HasUtmPrefix(name) \/ name \in tracking_params

NotClaimedTracking(pairs) ==
    SelectSeqIdx(pairs, [k \in 1..Len(pairs) |-> ~ClaimedTracking(pairs[k][1])])

\* C27: with strip_tracking_params true the result of canonicalize has no
\* query parameter named utm_* (any name with that prefix), fbclid, gclid,
\* msclkid, mc_cid, mc_eid, _ga, _gl, ref or source, and every other query
\* parameter is kept with its values, its multiplicity and its relative
\* order; with strip_tracking_params false all query parameters are kept.
C27TrackingRemoval ==
    Canonicalized
    => parse_qsl(urlparse(result.value).query)
          = IF args.strip_tracking_params
            THEN NotClaimedTracking(parse_qsl(urlparse(args.url).query))
            ELSE parse_qsl(urlparse(args.url).query)

(***************************************************************************)
(* extractors/list_page.py: normalize_url, which is urllib.parse.urljoin.  *)
(***************************************************************************)

\* urllib.parse.uses_relative, the members the bounded inputs can name
uses_relative == { <<>>, <<"f","t","p">>, <<"h","t","t","p">>,
                   <<"h","t","t","p","s">> }

\* urlparse(href, scheme): scheme is the default when href names none
urlparse_default(href, scheme) ==
    ParseSplit([urlsplit(href) EXCEPT !.scheme = IF @ = <<>> THEN scheme ELSE @])

\* urljoin: base_parts, the segments of the base path without the last one
\* unless that is empty
BaseParts(parts) ==
    IF parts[Len(parts)] # <<>> THEN SubSeq(parts, 1, Len(parts) - 1) ELSE parts

\* urljoin: segments[1:-1] = filter(None, segments[1:-1])
MiddleFiltered(segments) ==
    IF Len(segments) <= 2 THEN segments
    ELSE <<segments[1]>>
         \o NonEmptyFields(SubSeq(segments, 2, Len(segments) - 1))
         \o <<segments[Len(segments)]>>

\* urljoin: the loop that resolves '.' and '..'
RECURSIVE ResolveSegments(_, _)
ResolveSegments(segments, resolved_path) ==
    IF segments = <<>> THEN resolved_path
    ELSE IF Head(segments) = <<".", ".">>
    THEN ResolveSegments(Tail(segments),
                         IF resolved_path = <<>> THEN <<>>
                         ELSE SubSeq(resolved_path, 1, Len(resolved_path) - 1))
    ELSE IF Head(segments) = <<".">>
    THEN ResolveSegments(Tail(segments), resolved_path)
    ELSE ResolveSegments(Tail(segments), Append(resolved_path, Head(segments)))

ResolvedPath(segments) ==
    Join(ResolveSegments(segments, <<>>)
         \o (IF segments[Len(segments)] \in { <<".">>, <<".", ".">> }
             THEN << <<>> >> ELSE <<>>),
         "/")

JoinedPath(bpath, path) ==
    IF path[1] = "/"
    THEN ResolvedPath(Split(path, "/"))
    ELSE ResolvedPath(MiddleFiltered(BaseParts(Split(bpath, "/")) \o Split(path, "/")))

JoinRelative(b, u, netloc) ==
    IF u.path = <<>> /\ u.params = <<>>
    THEN urlunparse(u.scheme, netloc, b.path, b.params,
                    IF u.query = <<>> THEN b.query ELSE u.query, u.fragment)
    ELSE IF u.path = <<>>
    THEN urlunparse(u.scheme, netloc,
                    IF ResolvedPath(MiddleFiltered(BaseParts(Split(b.path, "/"))
                                                   \o << <<>> >>)) = <<>>
                    THEN <<"/">>
                    ELSE ResolvedPath(MiddleFiltered(BaseParts(Split(b.path, "/"))
                                                     \o << <<>> >>)),
                    u.params, u.query, u.fragment)
    ELSE urlunparse(u.scheme, netloc,
                    IF JoinedPath(b.path, u.path) = <<>> THEN <<"/">>
                    ELSE JoinedPath(b.path, u.path),
                    u.params, u.query, u.fragment)

JoinParsed(href, b, u) ==
    IF u.scheme # b.scheme \/ u.scheme \notin uses_relative
    THEN href
    ELSE IF u.scheme \in uses_netloc /\ u.netloc # <<>>
    THEN urlunparse(u.scheme, u.netloc, u.path, u.params, u.query, u.fragment)
    ELSE JoinRelative(b, u, IF u.scheme \in uses_netloc THEN b.netloc ELSE u.netloc)

\* urllib.parse.urljoin(base, href)
urljoin(base, href) ==
    IF base = <<>> THEN href
    ELSE IF href = <<>> THEN base
    ELSE JoinParsed(href, urlparse(base), urlparse_default(href, urlparse(base).scheme))

\* normalize_url(base_url, href)
normalize_url(base_url, href) == urljoin(base_url, href)

BaseUrls == { <<"h", "t", "t", "p", "s", ":", "/", "/", "x", ".", "t", "e", "s", "t", "/">>,
            <<"h", "t", "t", "p", "s", ":", "/", "/", "x", ".", "t", "e", "s", "t", "/", "b", "a", "s", "e", "/">>,
            <<"h", "t", "t", "p", "s", ":", "/", "/", "x", ".", "t", "e", "s", "t", "/", "p", "r", "o", "d", "u", "c", "t", "s", "?", "p", "a", "g", "e", "=", "2">> }

\* The values of an href attribute in the bounded documents
Hrefs == { <<"/", "v", "a", "l", "i", "d">>,
         <<"p", "a", "g", "e", ".", "h", "t", "m", "l">>,
         <<"?", "p", "a", "g", "e", "=", "3">>,
         <<"h", "t", "t", "p", "s", ":", "/", "/", "o", ".", "t", "e", "s", "t", "/", "w">>,
         <<".", ".", "/", "u", "p">>,
         <<" ", "/", "v", "a", "l", "i", "d", " ">>,
         <<"#", "s">>,
         <<"j", "a", "v", "a", "s", "c", "r", "i", "p", "t", ":", "v">>,
         <<"m", "a", "i", "l", "t", "o", ":", "a">>,
         <<>>,
         <<" ">> }

(***************************************************************************)
(* extractors/list_page.py: the extractors.  What BeautifulSoup parses     *)
(* from the HTML is a sequence of div elements in document order, each     *)
(* with a class and the anchors it contains in document order; an anchor   *)
(* has a class, a text and an href attribute or none.  A CSS selector is   *)
(* tag, tag.class or tag[href].                                            *)
(***************************************************************************)
Anchor(class, href, text) == [tag |-> <<"a">>, class |-> class, href |-> href, text |-> text]
Div(class, links) ==
    [tag |-> <<"d", "i", "v">>, class |-> class, href |-> None, links |-> links]

\* The tag, the class and the attribute a selector asks for
SelectorTag(css) ==
    IF Find(css, ".", 1) > 0 THEN Upto(css, Find(css, ".", 1))
    ELSE IF Find(css, "[", 1) > 0 THEN Upto(css, Find(css, "[", 1))
    ELSE css

Matches(element, css) ==
    /\ element.tag = SelectorTag(css)
    /\ Find(css, ".", 1) > 0 => element.class = From(css, Find(css, ".", 1) + 1)
    /\ Find(css, "[", 1) > 0 => element.href # None

\* Tag.select(css) on a list of elements in document order
select(elements, css) ==
    SelectSeqIdx(elements, [k \in 1..Len(elements) |-> Matches(elements[k], css)])

\* All elements of the document in document order
RECURSIVE AllElements(_)
AllElements(soup) ==
    IF soup = <<>> THEN <<>>
    ELSE <<Head(soup)>> \o Head(soup).links \o AllElements(Tail(soup))

\* soup.select_one(css): None, or the first match in document order
select_one(soup, css) ==
    IF select(AllElements(soup), css) = <<>> THEN None
    ELSE Some(select(AllElements(soup), css)[1])

\* str.startswith(prefix)
startswith(s, prefix) ==
    Len(s) >= Len(prefix) /\ SubSeq(s, 1, Len(prefix)) = prefix

\* link.get('href', '').strip()
StrippedHref(link) == IF link.href = None THEN <<>> ELSE strip(link.href[1])

\* The test of line 107 with the mailto: test left out
SkipHref_without_mailto(href) ==
    \/ href = <<>>
    \/ startswith(href, <<"#">>)
    \/ startswith(href, <<"j", "a", "v", "a", "s", "c", "r", "i", "p", "t", ":">>)

\* extract_item_links, line 107: the hrefs that are skipped
SkipHref(href) ==
    \/ href = <<>>
    \/ startswith(href, <<"#">>)
    \/ startswith(href, <<"j", "a", "v", "a", "s", "c", "r", "i", "p", "t", ":">>)
    \/ startswith(href, <<"m", "a", "i", "l", "t", "o", ":">>)

\* extract_item_links, lines 103-123: the items of one scope.  selector_path
\* is kept as the pair of indices it is formatted from.
RECURSIVE LinkItems(_, _, _, _)
LinkItems(links, link_idx, scope_idx, base_url) ==
    IF links = <<>> THEN <<>>
    ELSE (IF SkipHref(StrippedHref(Head(links))) THEN <<>>
          ELSE << [url |-> normalize_url(base_url, StrippedHref(Head(links))),
                   text |-> strip(Head(links).text),
                   selector_path |-> <<scope_idx, link_idx>>] >>)
         \o LinkItems(Tail(links), link_idx + 1, scope_idx, base_url)

\* extract_item_links, lines 99-123
RECURSIVE ScopeItems(_, _, _, _)
ScopeItems(scopes, scope_idx, base_url, item_link_css) ==
    IF scopes = <<>> THEN <<>>
    ELSE LinkItems(select(Head(scopes).links, item_link_css), 0, scope_idx, base_url)
         \o ScopeItems(Tail(scopes), scope_idx + 1, base_url, item_link_css)

\* extract_item_links(html, base_url, scope_css, item_link_css), html parsed
extract_item_links(soup, base_url, scope_css, item_link_css) ==
    ScopeItems(select(soup, scope_css), 0, base_url, item_link_css)

\* The bounded documents of extract_item_links: at most MaxScopes div
\* elements, at most MaxLinks anchors in each
MaxScopes == 2
MaxLinks == 2

ItemHrefs == {None} \cup { Some(h) : h \in { <<"/", "v", "a", "l", "i", "d">>,
                                        <<"p", "a", "g", "e", ".", "h", "t", "m", "l">>,
                                        <<" ", "/", "v", "a", "l", "i", "d", " ">>,
                                        <<"#", "s">>,
                                        <<"j", "a", "v", "a", "s", "c", "r", "i", "p", "t", ":", "v">>,
                                        <<"m", "a", "i", "l", "t", "o", ":", "a">>,
                                        <<>> } }

ItemAnchors == { Anchor(<<>>, h, <<" ", "t">>) : h \in ItemHrefs }

SeqsUpTo(set, n) == UNION { [1..k -> set] : k \in 0..n }

ItemDivs ==
    { Div(<<"i", "t", "e", "m">>, links) : links \in SeqsUpTo(ItemAnchors, MaxLinks) }
    \cup { Div(<<"n", "a", "v">>, << Anchor(<<>>, Some(<<"/", "v", "a", "l", "i", "d">>), <<"n">>) >>) }

ItemDocs == SeqsUpTo(ItemDivs, MaxScopes)

InitItemLinks ==
    /\ InitCall
    /\ args \in { [fn |-> "extract_item_links", html |-> d, base_url |-> b,
                   scope_css |-> <<"d", "i", "v", ".", "i", "t", "e", "m">>, item_link_css |-> c] :
                    d \in ItemDocs,
                    b \in { <<"h", "t", "t", "p", "s", ":", "/", "/", "x", ".", "t", "e", "s", "t", "/">>,
                            <<"h", "t", "t", "p", "s", ":", "/", "/", "x", ".", "t", "e", "s", "t", "/", "b", "a", "s", "e", "/">> },
                    c \in { <<"a", "[", "h", "r", "e", "f", "]">>, <<"a">> } }

CallExtractItemLinks ==
    /\ CallFrame
    /\ args.fn = "extract_item_links"
    /\ result' = Returned(extract_item_links(args.html, args.base_url,
                                             args.scope_css, args.item_link_css))

NextItemLinks == CallExtractItemLinks

SpecItemLinks == InitItemLinks /\ [][NextItemLinks]_vars

\* The anchors item_link_css matches in the scope_idx-th scope (from 0)
MatchedLinks(scope_idx) ==
    select(select(args.html, args.scope_css)[scope_idx + 1].links, args.item_link_css)

\* selector_path p comes before selector_path q in document order
PathBefore(p, q) == p[1] < q[1] \/ (p[1] = q[1] /\ p[2] < q[2])

\* The matched anchors whose href is kept, as selector paths
KeptPaths ==
    { p \in (0..(MaxScopes - 1)) \X (0..(MaxLinks - 1)) :
        /\ p[1] < Len(select(args.html, args.scope_css))
        /\ p[2] < Len(MatchedLinks(p[1]))
        /\ MatchedLinks(p[1])[p[2] + 1].href # None
        /\ strip(MatchedLinks(p[1])[p[2] + 1].href[1]) # <<>>
        /\ ~startswith(strip(MatchedLinks(p[1])[p[2] + 1].href[1]), <<"#">>)
        /\ ~startswith(strip(MatchedLinks(p[1])[p[2] + 1].href[1]), <<"j", "a", "v", "a", "s", "c", "r", "i", "p", "t", ":">>)
        /\ ~startswith(strip(MatchedLinks(p[1])[p[2] + 1].href[1]), <<"m", "a", "i", "l", "t", "o", ":">>) }

\* C28: extract_item_links returns, in document order of scopes and then of
\* links within each scope, exactly one entry per matched anchor whose href
\* (trimmed) is not empty and does not begin with '#', 'javascript:' or
\* 'mailto:', each resolved against base_url; nothing is deduplicated.
C28ItemLinksInDocumentOrder ==
    (result.called /\ args.fn = "extract_item_links")
    => /\ Len(result.value) = Cardinality(KeptPaths)
       /\ \A k \in 1..Len(result.value) :
             /\ result.value[k].selector_path \in KeptPaths
             /\ result.value[k].url
                   = urljoin(args.base_url,
                             strip(MatchedLinks(result.value[k].selector_path[1])
                                      [result.value[k].selector_path[2] + 1].href[1]))
       /\ \A k \in 1..(Len(result.value) - 1) :
             PathBefore(result.value[k].selector_path,
                        result.value[k + 1].selector_path)

\* C28 witness: extract_item_links has returned the same URL twice, from
\* two scopes, for a document in which it skipped a mailto: anchor.
C28Witness ==
    /\ result.called
    /\ args.fn = "extract_item_links"
    /\ Len(result.value) = 2
    /\ result.value[1].url = result.value[2].url
    /\ result.value[1].selector_path[1] # result.value[2].selector_path[1]
    /\ \E d \in 1..Len(args.html) : \E l \in 1..Len(args.html[d].links) :
          args.html[d].links[l].href = Some(<<"m", "a", "i", "l", "t", "o", ":", "a">>)

(***************************************************************************)
(* extractors/list_page.py: extract_pagination_links.  pagination_config   *)
(* is a dictionary of the values PaginationConfig.to_dict gives.           *)
(***************************************************************************)

\* The test of lines 183 and 222 with the javascript: test left out
SkipPaginationHref_without_javascript(href) ==
    \/ href = <<>>
    \/ startswith(href, <<"#">>)

\* _extract_next_pagination, line 183, and _extract_all_links_pagination,
\* line 222: the hrefs that are skipped
SkipPaginationHref(href) ==
    \/ href = <<>>
    \/ startswith(href, <<"#">>)
    \/ startswith(href, <<"j", "a", "v", "a", "s", "c", "r", "i", "p", "t", ":">>)

NextLinkUrls(next_link, base_url) ==
    IF SkipPaginationHref(StrippedHref(next_link)) THEN <<>>
    ELSE << normalize_url(base_url, StrippedHref(next_link)) >>

_extract_next_pagination(soup, base_url, config) ==
    IF ~truth(get(config, "next_css")) THEN <<>>
    ELSE IF select_one(soup, get(config, "next_css").v) = None THEN <<>>
    ELSE NextLinkUrls(select_one(soup, get(config, "next_css").v)[1], base_url)

\* _extract_all_links_pagination, lines 228-236: the link is on the host of
\* base_url and its path is at most one segment shorter
SimilarPath(link_parsed, base_parsed) ==
    /\ link_parsed.netloc = base_parsed.netloc
    /\ Len(Split(RStrip(link_parsed.path, "/"), "/"))
          >= Len(Split(RStrip(base_parsed.path, "/"), "/")) - 1

RECURSIVE PaginationUrls(_, _)
PaginationUrls(links, base_url) ==
    IF links = <<>> THEN <<>>
    ELSE (IF /\ ~SkipPaginationHref(StrippedHref(Head(links)))
             /\ SimilarPath(urlparse(normalize_url(base_url, StrippedHref(Head(links)))),
                            urlparse(base_url))
          THEN << normalize_url(base_url, StrippedHref(Head(links))) >>
          ELSE <<>>)
         \o PaginationUrls(Tail(links), base_url)

_extract_all_links_pagination(soup, base_url, config) ==
    IF ~truth(get(config, "pagination_scope_css")) THEN <<>>
    ELSE IF select_one(soup, get(config, "pagination_scope_css").v) = None THEN <<>>
    ELSE PaginationUrls(
            select(select_one(soup, get(config, "pagination_scope_css").v)[1].links,
                   <<"a", "[", "h", "r", "e", "f", "]">>),
            base_url)

DigitOf(d) ==
    CASE d = 0 -> "0" [] d = 1 -> "1" [] d = 2 -> "2" [] d = 3 -> "3" [] d = 4 -> "4"
      [] d = 5 -> "5" [] d = 6 -> "6" [] d = 7 -> "7" [] d = 8 -> "8" [] d = 9 -> "9"

\* str(n) for an int
RECURSIVE str_int(_)
str_int(n) ==
    IF n < 0 THEN <<"-">> \o str_int(0 - n)
    ELSE IF n < 10 THEN <<DigitOf(n)>>
    ELSE str_int(n \div 10) \o <<DigitOf(n % 10)>>

\* str(key) for a dictionary key in urlencode: the key itself, or 'None'
str_key(key) == IF key.t = "none" THEN <<"N", "o", "n", "e">> ELSE key.v

\* params[page_param] = [str(page_num)] on parse_qs's dict, as the items
\* urlencode walks: a key that exists keeps its place, a new key goes last
RECURSIVE ItemsWith(_, _, _, _)
ItemsWith(pairs, keys, key, value) ==
    IF keys = <<>> THEN <<>>
    ELSE (IF keys[1] = key THEN << <<key, value>> >> ELSE PairsOf(pairs, keys[1]))
         \o ItemsWith(pairs, Tail(keys), key, value)

\* Setting the page parameter by appending it to the query as it is
SetParam_appending(pairs, key, value) == Append(pairs, <<key, value>>)

SetParam(pairs, key, value) ==
    ItemsWith(pairs,
              IF key \in Range(DictKeys(pairs, {})) THEN DictKeys(pairs, {})
              ELSE Append(DictKeys(pairs, {}), key),
              key, value)

\* _extract_url_template_pagination, lines 262-276: the URL of one page
TemplateUrl(parsed, page_param, page_num) ==
    urlunparse(parsed.scheme, parsed.netloc, parsed.path, parsed.params,
               urlencode(SetParam(parse_qsl(parsed.query), str_key(page_param),
                                  str_int(page_num))),
               <<>>)

\* _extract_url_template_pagination; range() of a value that is no int
\* raises TypeError
_extract_url_template_pagination(base_url, config) ==
    IF get2(config, "page_start", Num(1)).t # "int"
       \/ get2(config, "page_end", Num(10)).t # "int"
    THEN Raised("TypeError")
    ELSE Returned(
            [k \in 1..(get2(config, "page_end", Num(10)).v
                        - get2(config, "page_start", Num(1)).v + 1) |->
                TemplateUrl(urlparse(base_url),
                            get2(config, "page_param", Str(<<"p", "a", "g", "e">>)),
                            get2(config, "page_start", Num(1)).v + k - 1)])

\* extract_pagination_links(html, base_url, pagination_config), html parsed
extract_pagination_links(soup, base_url, pagination_config) ==
    IF IsStr(get2(pagination_config, "type", Str(type_next)), type_next)
    THEN Returned(_extract_next_pagination(soup, base_url, pagination_config))
    ELSE IF IsStr(get2(pagination_config, "type", Str(type_next)), type_all_links)
    THEN Returned(_extract_all_links_pagination(soup, base_url, pagination_config))
    ELSE IF IsStr(get2(pagination_config, "type", Str(type_next)), type_url_template)
    THEN _extract_url_template_pagination(base_url, pagination_config)
    ELSE Raised("Unknown pagination type")

\* The bounded documents of extract_pagination_links: one div of class
\* pagination with at most MaxLinks anchors
PaginationAnchors ==
    { Anchor(c, h, <<"2">>) :
        c \in { <<>>, <<"n", "e", "x", "t", "-", "l", "i", "n", "k">> },
        h \in {None} \cup { Some(x) : x \in Hrefs } }

PaginationDocs ==
    { << Div(<<"p", "a", "g", "i", "n", "a", "t", "i", "o", "n">>, links) >> :
        links \in SeqsUpTo(PaginationAnchors, MaxLinks) }

NextConfigs ==
    { DictOf([type |-> Str(type_next), next_css |-> c]) :
        c \in { Missing, Null, Str(<<>>), Str(<<"a", ".", "n", "e", "x", "t", "-", "l", "i", "n", "k">>),
                Str(<<"a", ".", "n", "o", "n", "e", "x", "i", "s", "t", "e", "n", "t">>) } }

AllLinksConfigs ==
    { DictOf([type |-> Str(type_all_links), pagination_scope_css |-> c]) :
        c \in { Str(<<"d", "i", "v", ".", "p", "a", "g", "i", "n", "a", "t", "i", "o", "n">>) } }

\* The page numbers of the bounded url_template configs
PageStarts == {0, 1, 2, 9}
PageEnds == {0, 1, 3, 11}

TemplateConfigs ==
    { DictOf([type |-> Str(type_url_template), page_param |-> p,
              page_start |-> Num(a), page_end |-> Num(b)]) :
        p \in { Missing, Str(<<"p", "a", "g", "e">>), Str(<<"i", "d">>) },
        a \in PageStarts, b \in PageEnds }

TemplateBaseUrls == { <<"h", "t", "t", "p", "s", ":", "/", "/", "x", ".", "t", "e", "s", "t", "/", "p">>,
                    <<"h", "t", "t", "p", "s", ":", "/", "/", "x", ".", "t", "e", "s", "t", "/", "p", "?", "p", "a", "g", "e", "=", "7", "&", "i", "d", "=", "1">>,
                    <<"h", "t", "t", "p", "s", ":", "/", "/", "x", ".", "t", "e", "s", "t", "/", "p", "/", "?", "a", "=", "1", "&", "b", "=", "2", "&", "a", "=", "3", "#", "s">>,
                    <<"h", "t", "t", "p", "s", ":", "/", "/", "x", ".", "t", "e", "s", "t", "/", "p", "?", "i", "d">> }

InitPagination ==
    /\ InitCall
    /\ args \in
          { [fn |-> "extract_pagination_links", html |-> d, base_url |-> b,
             pagination_config |-> c] :
              d \in PaginationDocs, b \in BaseUrls,
              c \in NextConfigs \cup AllLinksConfigs }
          \cup
          { [fn |-> "extract_pagination_links", html |-> d, base_url |-> b,
             pagination_config |-> c] :
              d \in { <<>>, << Div(<<"p", "a", "g", "i", "n", "a", "t", "i", "o", "n">>,
                                   << Anchor(<<"n", "e", "x", "t", "-", "l", "i", "n", "k">>,
                                             Some(<<"?", "p", "a", "g", "e", "=", "3">>), <<"2">>) >>) >> },
              b \in TemplateBaseUrls, c \in TemplateConfigs }

CallExtractPaginationLinks ==
    /\ CallFrame
    /\ args.fn = "extract_pagination_links"
    /\ result' = extract_pagination_links(args.html, args.base_url,
                                          args.pagination_config)

NextPagination == CallExtractPaginationLinks

SpecPagination == InitPagination /\ [][NextPagination]_vars

\* extract_pagination_links has returned for a config of the given type
PaginationCalled(type) ==
    /\ result.called
    /\ args.fn = "extract_pagination_links"
    /\ IsStr(args.pagination_config["type"], type)

\* The positions, in document order, of the elements next_css matches
NextMatches ==
    IF "next_css" \in DOMAIN args.pagination_config
       /\ args.pagination_config["next_css"].t = "str"
    THEN { k \in 1..Len(AllElements(args.html)) :
             Matches(AllElements(args.html)[k], args.pagination_config["next_css"].v) }
    ELSE {}

\* The href of the first element next_css matches, trimmed; '' when the
\* element has no href
FirstNextHref ==
    StrippedHref(AllElements(args.html)
                    [CHOOSE k \in NextMatches : \A j \in NextMatches : k <= j])

\* C29: for type next, extract_pagination_links returns the empty list when
\* next_css matches no element or the matched element's href is empty or
\* begins with '#' or 'javascript:', and otherwise a one-element list holding
\* that href resolved against base_url.
C29NextPagination ==
    PaginationCalled(type_next)
    => /\ ~result.raised
       /\ result.value
             = IF \/ NextMatches = {}
                  \/ FirstNextHref = <<>>
                  \/ startswith(FirstNextHref, <<"#">>)
                  \/ startswith(FirstNextHref, <<"j", "a", "v", "a", "s", "c", "r", "i", "p", "t", ":">>)
               THEN <<>>
               ELSE << urljoin(args.base_url, FirstNextHref) >>

\* C29 witness: next_css matches two anchors and the href of the first,
\* '?page=3', has been returned resolved against a base_url with a query.
C29Witness ==
    /\ PaginationCalled(type_next)
    /\ Cardinality(NextMatches) = 2
    /\ FirstNextHref = <<"?", "p", "a", "g", "e", "=", "3">>
    /\ args.base_url = <<"h", "t", "t", "p", "s", ":", "/", "/", "x", ".", "t", "e", "s", "t", "/", "p", "r", "o", "d", "u", "c", "t", "s", "?", "p", "a", "g", "e", "=", "2">>
    /\ result.value = << <<"h", "t", "t", "p", "s", ":", "/", "/", "x", ".", "t", "e", "s", "t", "/", "p", "r", "o", "d", "u", "c", "t", "s", "?", "p", "a", "g", "e", "=", "3">> >>

\* int(s) for a string of digits
RECURSIVE int_str(_)
int_str(s) ==
    IF s = <<>> THEN 0
    ELSE 10 * int_str(SubSeq(s, 1, Len(s) - 1))
         + (CHOOSE d \in 0..9 : DigitOf(d) = s[Len(s)])

\* The name of the page parameter of the call: page_param, or 'page'
PageParamOf(config) ==
    IF "page_param" \in DOMAIN config THEN config["page_param"].v
    ELSE <<"p", "a", "g", "e">>

\* The names of the query parameters of a URL
ParamNames(u) == { p[1] : p \in Range(parse_qsl(urlparse(u).query)) }

\* C30: for type url_template, extract_pagination_links ignores the HTML and
\* returns exactly page_end - page_start + 1 URLs (none when page_start >
\* page_end), in ascending page order; the i-th has the scheme, host and
\* path of base_url, the single query parameter page_param with the value
\* page_start + i - 1, and every other query parameter of base_url with its
\* values unchanged.
C30UrlTemplatePagination ==
    PaginationCalled(type_url_template)
    => /\ ~result.raised
       /\ Len(result.value)
             = IF args.pagination_config["page_start"].v
                     > args.pagination_config["page_end"].v
               THEN 0
               ELSE args.pagination_config["page_end"].v
                       - args.pagination_config["page_start"].v + 1
       /\ \A i \in 1..Len(result.value) :
             /\ urlparse(result.value[i]).scheme = urlparse(args.base_url).scheme
             /\ urlparse(result.value[i]).netloc = urlparse(args.base_url).netloc
             /\ urlparse(result.value[i]).path = urlparse(args.base_url).path
             /\ ParamNames(result.value[i])
                   = ParamNames(args.base_url) \cup {PageParamOf(args.pagination_config)}
             /\ Len(PairsOf(parse_qsl(urlparse(result.value[i]).query),
                            PageParamOf(args.pagination_config))) = 1
             /\ int_str(PairsOf(parse_qsl(urlparse(result.value[i]).query),
                                PageParamOf(args.pagination_config))[1][2])
                   = args.pagination_config["page_start"].v + i - 1
             /\ \A name \in ParamNames(args.base_url)
                               \ {PageParamOf(args.pagination_config)} :
                   PairsOf(parse_qsl(urlparse(result.value[i]).query), name)
                      = PairsOf(parse_qsl(urlparse(args.base_url).query), name)

\* C30 witness: three URLs have been generated for pages 9 to 11 from a
\* base_url that has a page parameter and another one, for a document that
\* holds a next link.
C30Witness ==
    /\ PaginationCalled(type_url_template)
    /\ args.html # <<>>
    /\ args.base_url = <<"h", "t", "t", "p", "s", ":", "/", "/", "x", ".", "t", "e", "s", "t", "/", "p", "?", "p", "a", "g", "e", "=", "7", "&", "i", "d", "=", "1">>
    /\ result.value = << <<"h", "t", "t", "p", "s", ":", "/", "/", "x", ".", "t", "e", "s", "t", "/", "p", "?", "p", "a", "g", "e", "=", "9", "&", "i", "d", "=", "1">>,
                         <<"h", "t", "t", "p", "s", ":", "/", "/", "x", ".", "t", "e", "s", "t", "/", "p", "?", "p", "a", "g", "e", "=", "1", "0", "&", "i", "d", "=", "1">>,
                         <<"h", "t", "t", "p", "s", ":", "/", "/", "x", ".", "t", "e", "s", "t", "/", "p", "?", "p", "a", "g", "e", "=", "1", "1", "&", "i", "d", "=", "1">> >>

(***************************************************************************)
(* The crawler as a process that keeps running: a step of crawl that can   *)
(* be taken is taken eventually, unless the process is killed.             *)
(***************************************************************************)
CrawlStep ==
    \/ Dequeue
    \/ ProcessItem
    \/ FinishPage
    \/ AfterPage
    \/ FinalSave

\* One run of the crawler, which may be killed
NextLive ==
    \/ \E d \in BOOLEAN, f \in BOOLEAN : run = 0 /\ Construct(d, f)
    \/ CrawlStep
    \/ Crash

SpecLive == Init /\ [][NextLive]_vars /\ WF_vars(CrawlStep)

\* The canonical URLs the pagination links of the documents name
PaginationUrlsOfDocs ==
    UNION { { canonicalize(d.pagination_links[k]) : k \in DOMAIN d.pagination_links } :
              d \in Docs }

\* The number of URLs crawl has dequeued in this run: each was fetched or
\* skipped as seen
Dequeues == Len(fetched) + stats.list_pages_skipped

\* C31: crawl terminates, in force mode as well as without it, though the
\* pagination links form cycles: pagination appends to the queue only URLs
\* that are not in queued_urls and adds them to it, queued_urls never
\* shrinks during a run, and so the number of dequeues of a run is at most
\* the number of start URLs plus the number of distinct pagination URLs.
C31Termination ==
    /\ []((Running \/ pc = "done")
            => Dequeues <= Len(recipe.start_urls) + Cardinality(PaginationUrlsOfDocs))
    /\ [][ (Running /\ pc' # "crashed")
              => /\ queued_urls \subseteq queued_urls'
                 /\ (pc = "items" /\ pc' = "after")
                       => /\ IsPrefix(queue, queue')
                          /\ \A k \in (Len(queue) + 1)..Len(queue') :
                                /\ queue'[k] \notin queued_urls
                                /\ queue'[k] \in queued_urls'
                                /\ \A j \in (Len(queue) + 1)..Len(queue') :
                                      queue'[j] = queue'[k] => j = k
         ]_vars
    /\ (Running ~> pc \in {"done", "crashed"})

\* C31 witness: a forced run has ended after it fetched /a, /b, /x and /c,
\* the last from a document whose pagination link leads back to /a.
C31Witness ==
    /\ pc = "done"
    /\ force
    /\ recipe.start_urls = <<PageA>>
    /\ Len(fetched) = 4
    /\ html = Some(Doc(<< >>, << PageASlash >>))

\* C32 (as claimed): each canonical URL is fetched at most once within one
\* run, in force mode as well as without it, for every start_urls list and
\* every sequence of fetch outcomes.
C32FetchedAtMostOnce ==
    (Running \/ pc = "done") =>
        \A k, j \in DOMAIN fetched : fetched[k] = fetched[j] => k = j

\* C33 (as claimed): at every point of a run, right after seeding included,
\* every URL held in the queue is a member of queued_urls.
C33QueueWithinQueuedUrls ==
    Running => Range(queue) \subseteq queued_urls

\* The URLs that have an entry in items.jsonl
LoggedItems(log) == { log[k].url : k \in DOMAIN log }

\* C34: no item is lost behind a seen page.  items.jsonl only grows;
\* seen_list_pages.json is written from the in-memory set only; and a URL
\* enters the in-memory set, other than by loading that file, only as the
\* page just processed, all of whose extracted item links have an entry in
\* items.jsonl by then.  Crashes and runs stopped by a limit included.
C34NoItemLostBehindSeenPage ==
    [][ /\ IsPrefix(items_log_file, items_log_file')
        /\ Loaded(seen_list_pages_file')
              \subseteq Loaded(seen_list_pages_file) \cup seen_list_pages
        /\ \A u \in seen_list_pages'
                       \ (seen_list_pages \cup Loaded(seen_list_pages_file)) :
              /\ u = url
              /\ ~Falsy(html)
              /\ \A k \in DOMAIN html[1].item_links :
                    canonicalize(html[1].item_links[k].url)
                       \in LoggedItems(items_log_file')
      ]_vars

\* C34 witness: a run stopped by max_items has saved /a as seen, with the
\* two items of its page in items.jsonl, and the next run has crashed.
C34Witness ==
    /\ pc = "crashed"
    /\ Truthy(recipe.limits.max_items)
    /\ PageA \in Loaded(seen_list_pages_file)
    /\ {ItemI, ItemJ} \subseteq LoggedItems(items_log_file)

\* C35: starting from an empty output directory, at every point, after a
\* crash included, each URL in seen_item_links.json has an entry in
\* items.jsonl and each URL in seen_list_pages.json has a success entry in
\* list_pages.jsonl.
C35SnapshotsNotAheadOfLogs ==
    /\ Loaded(seen_item_links_file) \subseteq LoggedItems(items_log_file)
    /\ \A u \in Loaded(seen_list_pages_file) : SuccessEntries(u) >= 1

\* C35 witness: a process has crashed and both snapshot files hold URLs.
C35Witness ==
    /\ pc = "crashed"
    /\ Loaded(seen_item_links_file) # {}
    /\ Loaded(seen_list_pages_file) # {}

(***************************************************************************)
(* The crawler on a recipe with more list pages than the period of the     *)
(* periodic save: one run on an empty output directory, which may be       *)
(* killed.                                                                 *)
(***************************************************************************)
PageD == <<"/", "d">>
PageE == <<"/", "e">>

\* A recipe with six start URLs and no limits
LongRecipe ==
    MkRecipe(<<PageA, PageB, PageC, PageX, PageD, PageE>>, TRUE, None, None)

\* The state before the first construction, with the recipe one of rs
InitOf(rs) ==
    /\ seen_list_pages_file = Absent
    /\ seen_item_links_file = Absent
    /\ list_pages_log_file = <<>>
    /\ items_log_file = <<>>
    /\ seen_list_pages = {}
    /\ seen_item_links = {}
    /\ recipe \in rs
    /\ dry_run = FALSE
    /\ force = FALSE
    /\ queue = <<>>
    /\ queued_urls = {}
    /\ stats = ZeroStats
    /\ pc = "idle"
    /\ url = <<>>
    /\ html = None
    /\ item_idx = 0
    /\ success = TRUE
    /\ run = 0
    /\ fetched = <<>>
    /\ null_only = TRUE
    /\ disk0 = [seen_list_pages_file |-> Absent, seen_item_links_file |-> Absent,
                list_pages_log_file |-> <<>>, items_log_file |-> <<>>]
    /\ seen0 = [pages |-> {}, items |-> {}, log |-> 0]
    /\ gap = {}
    /\ crash = NoCrash
    /\ hist = [force |-> FALSE, crash |-> FALSE, dry |-> FALSE]
    /\ added = <<>>
    /\ cleared = FALSE
    /\ ops = 0
    /\ peer = NoPeer
    /\ saved = {}
    /\ args = NoArgs
    /\ result = NoCall
    /\ WebIdle

InitLong == InitOf({LongRecipe})

NextLong ==
    \/ \E d \in BOOLEAN, f \in BOOLEAN : run = 0 /\ Construct(d, f)
    \/ Dequeue
    \/ ProcessItem
    \/ FinishPage
    \/ AfterPage
    \/ FinalSave
    \/ Crash

SpecLong == InitLong /\ [][NextLong]_vars

\* The URLs of the in-memory seen_list_pages that seen_list_pages.json lacks
Unsaved == seen_list_pages \ Loaded(seen_list_pages_file)

\* C36 (bounded checkpoint gap): during a non-dry run, with save() writing
\* its files, at most 5 URLs are in the in-memory seen_list_pages without
\* being in seen_list_pages.json, and a kill loses the seen marks of at most
\* 5 processed pages.
C36BoundedCheckpointGap ==
    /\ (Running /\ ~dry_run) => Cardinality(Unsaved) <= SaveEvery
    /\ (pc = "crashed" /\ ~dry_run) => Cardinality(crash.lost) <= SaveEvery

\* five pages are marked seen and not yet saved: the run is between the
\* fifth mark and the periodic save
C36Witness ==
    /\ pc = "after"
    /\ ~dry_run
    /\ Cardinality(Unsaved) = SaveEvery
    /\ stats.list_pages_visited = SaveEvery

(***************************************************************************)
(* The crawler on recipes whose limits are 0: `max_list_pages: 0` and      *)
(* `max_items: 0` of a recipe file reach LimitsConfig as the integer 0     *)
(* (from_dict copies limits_data.get(...)).                                *)
(***************************************************************************)
ZeroLimitRecipes ==
    { MkRecipe(<<PageA>>, TRUE, Some(0), Some(0)),
      MkRecipe(<<PageA>>, TRUE, Some(0), Some(1)),
      MkRecipe(<<PageA, PageX>>, TRUE, Some(2), Some(0)),
      MkRecipe(<<PageASlash>>, TRUE, Some(0), None) }

InitZero == InitOf(ZeroLimitRecipes)

SpecZero == InitZero /\ [][Next]_vars

\* The limit l is a number of at least 1 and the count n has reached it
ReachedLimit(l, n) == l # None /\ l[1] >= 1 /\ n >= l[1]

NoLimit(l) == l = None \/ l = Some(0)

\* C37 (a limit of 0 is no limit): when max_list_pages is 0, _should_stop
\* is true exactly when max_items is a limit that is reached, and the other
\* way round; crawl breaks out of its loop only on a limit of at least 1 that
\* is reached; with no limit other than 0 the run ends with an empty queue,
\* as a run without limits does.
C37ZeroLimitIsNoLimit ==
    /\ recipe.limits.max_list_pages = Some(0)
          => (_should_stop(stats)
                <=> ReachedLimit(recipe.limits.max_items, stats.items_discovered))
    /\ recipe.limits.max_items = Some(0)
          => (_should_stop(stats)
                <=> ReachedLimit(recipe.limits.max_list_pages,
                                 stats.list_pages_visited))
    /\ pc = "break"
          => \/ ReachedLimit(recipe.limits.max_list_pages, stats.list_pages_visited)
             \/ ReachedLimit(recipe.limits.max_items, stats.items_discovered)
    /\ ( /\ NoLimit(recipe.limits.max_list_pages)
         /\ NoLimit(recipe.limits.max_items)
         /\ pc = "done" )
          => queue = <<>>

\* a run with both limits 0 has visited three pages and found two items,
\* and goes on with the next URL of the queue
C37Witness ==
    /\ recipe.limits.max_list_pages = Some(0)
    /\ recipe.limits.max_items = Some(0)
    /\ stats.list_pages_visited = 3
    /\ stats.items_discovered = 2
    /\ pc = "loop"
    /\ queue # <<>>

(***************************************************************************)
(* crawler.py: WebCrawler, the generic crawler.  crawl runs in one thread: *)
(* it seeds the queue from start_urls, then dequeues one entry per turn of *)
(* its loop.  A page is the sequence of the href values of its anchors.    *)
(***************************************************************************)
\* crawler_config.MAX_DEPTH and crawler_config.ALLOWED_DOMAINS
MAX_DEPTH == 2
ALLOWED_DOMAINS == << >>

WebA == <<"h", "t", "t", "p", "s", ":", "/", "/", "x", ".", "t", "e", "s", "t", "/", "a">>
WebASlash == <<"h", "t", "t", "p", "s", ":", "/", "/", "x", ".", "t", "e", "s", "t", "/", "a", "/">>
WebB == <<"h", "t", "t", "p", "s", ":", "/", "/", "x", ".", "t", "e", "s", "t", "/", "b">>
WebC == <<"h", "t", "t", "p", "s", ":", "/", "/", "x", ".", "t", "e", "s", "t", "/", "c">>
WebW == <<"h", "t", "t", "p", "s", ":", "/", "/", "o", ".", "t", "e", "s", "t", "/", "w">>
XTest == <<"x", ".", "t", "e", "s", "t">>

\* response.text of a fetched page: the href values of its a[href] elements
WebDoc(hrefs) == [hrefs |-> hrefs]

WebDocs ==
    { WebDoc(<< <<"/", "b">>, <<"/", "a", "/">>, <<"#", "t", "o", "p">>, WebW >>),
      WebDoc(<< <<"/", "a", "#", "f">>, <<"/", "c">>, <<"/", "b", "/">> >>),
      WebDoc(<< >>) }

\* The results of fetch_page: None, or a MockResponse (always true in
\* `if not response`)
WebResponses == {None} \cup { Some(d) : d \in WebDocs }

\* The constructor's arguments
WebArgs ==
    { [fn |-> "WebCrawler", start_urls |-> s, max_depth |-> d, allowed_domains |-> a] :
        s \in { <<WebA>>, <<WebA, WebASlash>>, <<WebA, WebB>> },
        d \in { None, Some(1) },
        a \in { << >>, <<XTest>> } }

\* __init__: self.max_depth and self.allowed_domains
max_depth == IF args.max_depth # None THEN args.max_depth[1] ELSE MAX_DEPTH
allowed_domains ==
    IF args.allowed_domains # << >> THEN args.allowed_domains ELSE ALLOWED_DOMAINS

\* WebCrawler.normalize_url
WebCrawler_normalize_url(href) ==
    LET parsed == urlparse(href)
    IN  urlunparse(parsed.scheme, parsed.netloc,
                   IF parsed.path # <<"/">> THEN RStrip(parsed.path, "/")
                   ELSE parsed.path,
                   parsed.params, parsed.query, << >>)

endswith(str, suffix) ==
    Len(str) >= Len(suffix)
    /\ SubSeq(str, Len(str) - Len(suffix) + 1, Len(str)) = suffix

\* WebCrawler.is_allowed_domain
is_allowed_domain(href) ==
    \/ allowed_domains = << >>
    \/ \E k \in DOMAIN allowed_domains :
          \/ urlparse(href).netloc = allowed_domains[k]
          \/ endswith(urlparse(href).netloc, <<".">> \o allowed_domains[k])

\* extract_links, line 325: the hrefs that are passed over
SkipLink(href) ==
    \/ href = << >>
    \/ startswith(href, <<"#">>)
    \/ startswith(href, <<"j", "a", "v", "a", "s", "c", "r", "i", "p", "t", ":">>)
    \/ startswith(href, <<"m", "a", "i", "l", "t", "o", ":">>)

\* WebCrawler.extract_links: a set
WebCrawler_extract_links(html_content, base_url) ==
    { l \in { WebCrawler_normalize_url(urljoin(base_url, html_content.hrefs[k])) :
                k \in { j \in DOMAIN html_content.hrefs :
                          ~SkipLink(html_content.hrefs[j]) } } :
        is_allowed_domain(l) }

\* self.discovered_links[u] of the defaultdict, and the dict with u's entry e
Entry(dl, u) == IF u \in DOMAIN dl THEN dl[u] ELSE [found_on |-> << >>, depth |-> None]
Put(dl, u, e) == [x \in DOMAIN dl \cup {u} |-> IF x = u THEN e ELSE dl[x]]

\* add_to_queue, lines 419-425: the entry of normalized_url after them
Tracked(e, depth, parent_url) ==
    [found_on |-> IF parent_url # None /\ parent_url[1] # << >>
                     /\ parent_url[1] \notin Range(e.found_on)
                  THEN Append(e.found_on, parent_url[1]) ELSE e.found_on,
     depth |-> IF e.depth = None THEN Some(depth) ELSE e.depth]

\* WebCrawler.add_to_queue on self = [queue, visited, discovered_links]
WebCrawler_add_to_queue(self, href, depth, parent_url) ==
    LET normalized_url == WebCrawler_normalize_url(href)
    IN  IF normalized_url \in self.visited THEN self
        ELSE IF depth > max_depth THEN self
        ELSE [self EXCEPT
                !.discovered_links =
                    Put(@, normalized_url,
                        Tracked(Entry(@, normalized_url), depth, parent_url)),
                !.queue = Append(@, <<normalized_url, depth, parent_url>>)]

\* for link in links: self.add_to_queue(link, depth, parent_url)
RECURSIVE AddAll(_, _, _, _)
AddAll(self, links, depth, parent_url) ==
    IF links = << >> THEN self
    ELSE AddAll(WebCrawler_add_to_queue(self, Head(links), depth, parent_url),
                Tail(links), depth, parent_url)

\* The orders in which a for loop may iterate over a set
Orders(set) ==
    { f \in [1..Cardinality(set) -> set] :
        \A i, j \in 1..Cardinality(set) : f[i] = f[j] => i = j }

\* WebCrawler.load_discovered_links
load_discovered_links ==
    IF links_file = None THEN discovered_links
    ELSE [x \in DOMAIN discovered_links \cup DOMAIN links_file[1] |->
            IF x \in DOMAIN links_file[1] THEN links_file[1][x]
            ELSE discovered_links[x]]

\* A discovered_links.json an earlier run left
LinksOfEarlierRun == Put(<< >>, WebB, [found_on |-> <<WebA>>, depth |-> Some(1)])

InitWeb ==
    /\ seen_list_pages_file = Absent
    /\ seen_item_links_file = Absent
    /\ list_pages_log_file = <<>>
    /\ items_log_file = <<>>
    /\ seen_list_pages = {}
    /\ seen_item_links = {}
    /\ recipe = MkRecipe(<<PageA>>, TRUE, None, None)
    /\ dry_run = FALSE
    /\ force = FALSE
    /\ queue = <<>>
    /\ queued_urls = {}
    /\ stats = ZeroStats
    /\ pc = "web_idle"
    /\ url = <<>>
    /\ html = None
    /\ item_idx = 0
    /\ success = TRUE
    /\ run = 0
    /\ fetched = <<>>
    /\ null_only = TRUE
    /\ disk0 = [seen_list_pages_file |-> Absent, seen_item_links_file |-> Absent,
                list_pages_log_file |-> <<>>, items_log_file |-> <<>>]
    /\ seen0 = [pages |-> {}, items |-> {}, log |-> 0]
    /\ gap = {}
    /\ crash = NoCrash
    /\ hist = [force |-> FALSE, crash |-> FALSE, dry |-> FALSE]
    /\ added = <<>>
    /\ cleared = FALSE
    /\ ops = 0
    /\ peer = NoPeer
    /\ saved = {}
    /\ args \in WebArgs
    /\ result = NoCall
    /\ visited = {}
    /\ discovered_links = << >>
    /\ links_file \in { None, Some(LinksOfEarlierRun) }
    /\ pages = {}

WebFrame ==
    UNCHANGED <<files, logs, store, recipe, dry_run, force, queued_urls, stats,
                item_idx, success, run, null_only, disk0, seen0, gap, crash,
                hist, added, cleared, ops, peer, saved, args, result>>

\* crawl, lines 432-443: the links file is loaded and the start URLs are
\* queued.
WebCrawler_crawl_start ==
    /\ pc = "web_idle"
    /\ LET self == AddAll([queue |-> queue, visited |-> visited,
                           discovered_links |-> load_discovered_links],
                          args.start_urls, 0, None)
       IN  /\ queue' = self.queue
           /\ discovered_links' = self.discovered_links
    /\ pc' = "web_loop"
    /\ UNCHANGED <<visited, links_file, pages, url, html, fetched>>
    /\ WebFrame

\* one turn of crawl's loop in which a failed fetch leaves the URL unvisited
WebCrawler_crawl_turn_failure_not_marked ==
    /\ pc = "web_loop"
    /\ queue # << >>
    /\ url' = Head(queue)[1]
    /\ IF Head(queue)[1] \in visited
       THEN /\ queue' = Tail(queue)
            /\ UNCHANGED <<visited, discovered_links, links_file, pages, html,
                           fetched>>
       ELSE \E response \in WebResponses :
              /\ fetched' = Append(fetched, Head(queue)[1])
              /\ html' = response
              /\ IF response = None
                 THEN /\ queue' = Tail(queue)
                      /\ UNCHANGED <<visited, discovered_links, links_file, pages>>
                 ELSE /\ visited' = visited \cup {Head(queue)[1]}
                      /\ pages' = pages \cup {Head(queue)[1]}
                      /\ \E links \in
                            IF Head(queue)[2] < max_depth
                            THEN Orders(WebCrawler_extract_links(response[1],
                                                                 Head(queue)[1]))
                            ELSE { << >> } :
                            LET self == AddAll([queue |-> Tail(queue),
                                                visited |-> visited',
                                                discovered_links |-> discovered_links],
                                               links, Head(queue)[2] + 1,
                                               Some(Head(queue)[1]))
                            IN  /\ queue' = self.queue
                                /\ discovered_links' = self.discovered_links
                      /\ links_file' = IF Cardinality(visited') % 10 = 0
                                       THEN Some(discovered_links')
                                       ELSE links_file
    /\ pc' = "web_loop"
    /\ WebFrame

\* crawl, lines 445-480: one turn of the loop.  An entry whose URL is
\* visited is dropped; otherwise the URL is fetched and marked visited
\* whether or not the fetch failed; a fetched page is saved and, below
\* max_depth, its links are queued in the order the set yields them.
WebCrawler_crawl_turn ==
    /\ pc = "web_loop"
    /\ queue # << >>
    /\ url' = Head(queue)[1]
    /\ IF Head(queue)[1] \in visited
       THEN /\ queue' = Tail(queue)
            /\ UNCHANGED <<visited, discovered_links, links_file, pages, html,
                           fetched>>
       ELSE \E response \in WebResponses :
              /\ fetched' = Append(fetched, Head(queue)[1])
              /\ html' = response
              /\ visited' = visited \cup {Head(queue)[1]}
              /\ IF response = None
                 THEN /\ queue' = Tail(queue)
                      /\ UNCHANGED <<discovered_links, links_file, pages>>
                 ELSE /\ pages' = pages \cup {Head(queue)[1]}
                      /\ \E links \in
                            IF Head(queue)[2] < max_depth
                            THEN Orders(WebCrawler_extract_links(response[1],
                                                                 Head(queue)[1]))
                            ELSE { << >> } :
                            LET self == AddAll([queue |-> Tail(queue),
                                                visited |-> visited',
                                                discovered_links |-> discovered_links],
                                               links, Head(queue)[2] + 1,
                                               Some(Head(queue)[1]))
                            IN  /\ queue' = self.queue
                                /\ discovered_links' = self.discovered_links
                      /\ links_file' = IF Cardinality(visited') % 10 = 0
                                       THEN Some(discovered_links')
                                       ELSE links_file
    /\ pc' = "web_loop"
    /\ WebFrame

\* crawl, lines 482-486: the queue is empty; the final save of the links
WebCrawler_crawl_end ==
    /\ pc = "web_loop"
    /\ queue = << >>
    /\ links_file' = Some(discovered_links)
    /\ pc' = "web_done"
    /\ UNCHANGED <<queue, visited, discovered_links, pages, url, html, fetched>>
    /\ WebFrame

NextWeb ==
    \/ WebCrawler_crawl_start
    \/ WebCrawler_crawl_turn
    \/ WebCrawler_crawl_end

SpecWeb == InitWeb /\ [][NextWeb]_vars

\* C38 (WebCrawler fetches a URL at most once): in a run of crawl no URL is
\* passed to fetch_page twice, and every URL passed to it is in visited from
\* then on, whether its fetch failed or not, so that a later entry of the
\* queue for it is dropped and add_to_queue queues it no more.
C38FetchedAtMostOnce ==
    pc \in {"web_loop", "web_done"} =>
        /\ \A k, j \in DOMAIN fetched : fetched[k] = fetched[j] => k = j
        /\ Range(fetched) \subseteq visited
        /\ pages \subseteq Range(fetched)

\* crawl has returned; /c was queued from two parent pages and fetched once,
\* and its fetch failed
C38Witness ==
    /\ pc = "web_done"
    /\ WebC \in DOMAIN discovered_links
    /\ Len(discovered_links[WebC].found_on) = 2
    /\ WebC \in Range(fetched)
    /\ WebC \notin pages

=============================================================================
